---- MODULE Spec2Model ----
(***************************************************************************)
(* KeplerTable: the tabular dataset and its filter orchestration           *)
(* (importData, update, filterTable, filterTableCPU, copyTable).           *)
(*                                                                         *)
(* A JavaScript object is a function from property names to values; a      *)
(* property that is undefined is a name outside the DOMAIN.  Row and field *)
(* indices are 0-based as in the source; TLA+ sequences are 1-based, so    *)
(* element i of a JavaScript array is seq[i + 1].  A field name is the      *)
(* sequence of its characters, so that the name patterns of                *)
(* findPointFieldPairs are matched character by character.                 *)
(***************************************************************************)
EXTENDS Integers, Sequences, FiniteSets, TLC

VARIABLES table, call, aggregator, layer, fileUpload, customInput

vars == <<table, call, aggregator, layer, fileUpload, customInput>>

\* what the calls on a table leave alone
components == <<aggregator, layer, fileUpload, customInput>>

\* -------------------------------------------------------------------------
\* Bounds of the model
\* -------------------------------------------------------------------------

\* update() stops appending once the container holds this many rows
MaxRows == 4

\* findPointFieldPairs is given at most this many fields, except for the
\* lists of AltitudeLists
MaxFields == 3

\* -------------------------------------------------------------------------
\* JavaScript objects with optional properties
\* -------------------------------------------------------------------------

\* {}
EmptyObject == [key \in {} |-> TRUE]

Has(obj, key) == key \in DOMAIN obj

\* obj[key] = value
Set(obj, key, value) == (key :> value) @@ obj

\* obj[key] || dflt   (every value stored under these keys is truthy: an
\* array, even an empty one, and an object are truthy in JavaScript)
GetOr(obj, key, dflt) == IF Has(obj, key) THEN obj[key] ELSE dflt

Range(seq) == {seq[i] : i \in 1..Len(seq)}

\* -------------------------------------------------------------------------
\* Data container (createDataContainer, row-major or column-major)
\* -------------------------------------------------------------------------

\* the columns of the imported data: "lat" and "lng"
Lat == <<"l", "a", "t">>
Lng == <<"l", "n", "g">>
FieldNames == <<Lat, Lng>>

createDataContainer(data, inputDataFormat) ==
  [format |-> inputDataFormat, data |-> data]

numRows(dc) ==
  IF dc.format = "ROWS_ARRAY" THEN Len(dc.data)
  ELSE IF Len(dc.data) = 0 THEN 0 ELSE Len(dc.data[1])

valueAt(dc, rowIndex, fieldIndex) ==
  IF dc.format = "ROWS_ARRAY" THEN dc.data[rowIndex + 1][fieldIndex + 1]
  ELSE dc.data[fieldIndex + 1][rowIndex + 1]

\* [0 .. numRows-1]
getPlainIndex(dc) == [i \in 1..numRows(dc) |-> i - 1]

\* DataContainer.update: the new rows come after the rows already held, so
\* every existing row keeps its position
updateDataContainer(dc, data) ==
  IF dc.format = "ROWS_ARRAY" THEN [dc EXCEPT !.data = @ \o data]
  ELSE [dc EXCEPT !.data = [c \in 1..Len(@) |-> @[c] \o data[c]]]

\* -------------------------------------------------------------------------
\* Filters, layers and options handed in by the caller
\* -------------------------------------------------------------------------

DataId == "d1"

\* getDatasetFieldIndexForFilter: the filter carries the index of its field
\* in the dataset it targets; -1 when it targets another dataset or the
\* field is unknown
getDatasetFieldIndexForFilter(dataId, filter) ==
  IF filter.dataId # dataId THEN -1 ELSE filter.fieldIdx

Filter(id, dataId, name, fieldIdx, type, value, gpu, fixedDomain) ==
  [id |-> id, dataId |-> dataId, name |-> name, fieldIdx |-> fieldIdx,
   type |-> type, value |-> value, gpu |-> gpu, fixedDomain |-> fixedDomain]

\* The filter objects a caller may pass.  Objects with the same id are the
\* same filter at different moments of its editing.
F1cpu == Filter("f1", DataId, Lat, 0, "multiSelect", {1}, FALSE, FALSE)
F1value == Filter("f1", DataId, Lat, 0, "multiSelect", {2}, FALSE, FALSE)
F1gpu == Filter("f1", DataId, Lat, 0, "multiSelect", {1}, TRUE, FALSE)
F1fixed == Filter("f1", DataId, Lat, 0, "multiSelect", {1}, FALSE, TRUE)
F2cpu == Filter("f2", DataId, Lng, 1, "multiSelect", {1}, FALSE, FALSE)
F2gpu == Filter("f2", DataId, Lng, 1, "multiSelect", {1}, TRUE, FALSE)
F2other == Filter("f2", "d2", Lng, 1, "multiSelect", {1}, TRUE, FALSE)
F2missing == Filter("f2", DataId, <<"z", "z">>, -1, "multiSelect", {1}, FALSE, FALSE)
F2polygon == Filter("f2", DataId, <<>>, -1, "polygon", {1}, FALSE, FALSE)

\* filter lists with distinct ids: none, one, or one of each id
ListsOf(pool1, pool2) ==
  {<<>>} \cup {<<f>> : f \in pool1 \cup pool2}
         \cup {<<f, g>> : f \in pool1, g \in pool2}

\* the lists of the full model, and the wider choice used where only
\* filterTable is called
FilterLists == ListsOf({F1cpu, F1gpu}, {F2other})

WideFilterLists ==
  ListsOf({F1cpu, F1value, F1gpu, F1fixed}, {F2cpu, F2other, F2missing, F2polygon})

\* A layer draws the rows of one dataset by one of its columns
Layer(id, dataId, column) == [id |-> id, dataId |-> dataId, column |-> column]

Layers1 == <<Layer("l1", DataId, 0)>>
Layers2 == <<Layer("l1", DataId, 1)>>

LayerLists == {Layers1, Layers2}

\* FilterDatasetOpt; opt || {} reads an absent flag as false
NoOpt == [cpuOnly |-> FALSE, ignoreDomain |-> FALSE]
CpuOpt == [cpuOnly |-> TRUE, ignoreDomain |-> TRUE]
Opts == {NoOpt, CpuOpt}

\* -------------------------------------------------------------------------
\* Filter helpers (filter-utils, gpu-filter-utils)
\* -------------------------------------------------------------------------

AppliesTo(dataId, f) == f.dataId = dataId

\* classification of the filter list for one dataset
getFilterRecord(dataId, filters, opt) ==
  [dynamicDomain |->
     SelectSeq(filters, LAMBDA f :
       AppliesTo(dataId, f) /\ ~(f.fixedDomain \/ opt.ignoreDomain)),
   cpu |->
     SelectSeq(filters, LAMBDA f :
       AppliesTo(dataId, f) /\ ~(f.gpu /\ ~opt.cpuOnly)),
   gpu |->
     SelectSeq(filters, LAMBDA f :
       AppliesTo(dataId, f) /\ f.gpu /\ ~opt.cpuOnly)]

Buckets == {"dynamicDomain", "cpu", "gpu"}

FindById(items, id) ==
  LET hits == {i \in 1..Len(items) : items[i].id = id}
  IN  IF hits = {} THEN <<>> ELSE <<items[CHOOSE i \in hits : \A j \in hits : i <= j]>>

\* what happened to one filter of a bucket; "same" when nothing did
FilterChange(filter, oldItems) ==
  LET old == FindById(oldItems, filter.id)
  IN  IF old = <<>> THEN "added"
      ELSE IF filter.dataId # old[1].dataId THEN "dataId_changed"
      ELSE IF filter.value # old[1].value THEN "value_changed"
      ELSE IF filter.name # old[1].name THEN "name_changed"
      ELSE "same"

\* diffFilters(filterRecord, oldFilterRecord = {}): per bucket, the filters
\* added, changed or deleted since the old record, by id.  A bucket in which
\* nothing changed maps no id (null in the source).
diffFilters(filterRecord, oldFilterRecord) ==
  [record \in Buckets |->
     LET items == filterRecord[record]
         oldItems == GetOr(oldFilterRecord, record, <<>>)
         touched == {f \in Range(items) : FilterChange(f, oldItems) # "same"}
         deleted == {f \in Range(oldItems) : FindById(items, f.id) = <<>>}
     IN  [id \in {f.id : f \in touched \cup deleted} |->
            IF \E f \in deleted : f.id = id THEN "deleted"
            ELSE FilterChange(CHOOSE f \in touched : f.id = id, oldItems)]]

\* Boolean(changedFilters[record])
BucketChanged(changedFilters, record) == DOMAIN changedFilters[record] # {}

\* getFilterFunction: the predicate of one filter over row indices.  A filter
\* whose field is absent from the dataset passes every row; a polygon filter
\* tests the column each layer of this dataset is drawn by.
getFilterFunction(field, dataId, filter, layers, dc) ==
  [i \in 0..(numRows(dc) - 1) |->
     IF filter.type = "polygon"
     THEN \A k \in 1..Len(layers) :
            layers[k].dataId = dataId => valueAt(dc, i, layers[k].column) \in filter.value
     ELSE IF field = <<>> THEN TRUE
     ELSE valueAt(dc, i, field[1].fieldIdx) \in filter.value]

\* rows, in ascending order, that pass every filter of the list
PassingRows(filterList, filterFuncs, dc) ==
  LET pass(i) == \A k \in 1..Len(filterList) : filterFuncs[filterList[k].id][i]
  IN  SelectSeq(getPlainIndex(dc), pass)

\* filterDataByFilterTypes: one pass over the rows; an index list is produced
\* only for a bucket that was handed in (non-null)
filterDataByFilterTypes(arg, dc) ==
  LET forDomain ==
        IF Has(arg, "dynamicDomainFilters")
        THEN "filteredIndexForDomain" :>
               PassingRows(arg.dynamicDomainFilters, arg.filterFuncs, dc)
        ELSE EmptyObject
      forRender ==
        IF Has(arg, "cpuFilters")
        THEN "filteredIndex" :> PassingRows(arg.cpuFilters, arg.filterFuncs, dc)
        ELSE EmptyObject
  IN  forDomain @@ forRender

\* getGpuFilterProps: the declarative descriptor of the GPU-flagged filters
\* of this dataset, one channel per filter in list order
getGpuFilterProps(filters, dataId, fields, oldGpuFilter) ==
  LET channels == SelectSeq(filters, LAMBDA f : f.gpu /\ f.dataId = dataId)
  IN  [filterRange |-> [c \in 1..Len(channels) |-> channels[c].value],
       filterValueUpdateTriggers |->
         [c \in 1..Len(channels) |-> [name |-> channels[c].name]]]

\* -------------------------------------------------------------------------
\* Point field pairs (findPointFieldPairs)
\* -------------------------------------------------------------------------

UpperCase ==
  <<"A", "B", "C", "D", "E", "F", "G", "H", "I", "J", "K", "L", "M",
    "N", "O", "P", "Q", "R", "S", "T", "U", "V", "W", "X", "Y", "Z">>

LowerCase ==
  <<"a", "b", "c", "d", "e", "f", "g", "h", "i", "j", "k", "l", "m",
    "n", "o", "p", "q", "r", "s", "t", "u", "v", "w", "x", "y", "z">>

\* String.prototype.toLowerCase
toLowerCase(str) ==
  [i \in 1..Len(str) |->
     IF \E k \in 1..Len(UpperCase) : UpperCase[k] = str[i]
     THEN LowerCase[CHOOSE k \in 1..Len(UpperCase) : UpperCase[k] = str[i]]
     ELSE str[i]]

\* the least and the greatest element of a non-empty set of integers
Min(S) == CHOOSE i \in S : \A j \in S : i <= j

Max(S) == CHOOSE i \in S : \A j \in S : j <= i

\* the part of str between the first and the last of the positions kept
Between(str, kept) ==
  IF kept = {} THEN <<>> ELSE SubSeq(str, Min(kept), Max(kept))

\* String.prototype.trim: the blanks at both ends are dropped
trim(str) == Between(str, {i \in 1..Len(str) : str[i] # " "})

\* pat occurs in str at position p (1-based)
StartsAt(str, pat, p) ==
  /\ p >= 1
  /\ p + Len(pat) - 1 <= Len(str)
  /\ SubSeq(str, p, p + Len(pat) - 1) = pat

\* str with the part from position first up to, not including, position
\* after replaced by the string by
Splice(str, first, after, by) ==
  SubSeq(str, 1, first - 1) \o by \o SubSeq(str, after, Len(str))

\* str with pat replaced at the first of the positions at where it occurs
replaceAt(str, at, pat, by) ==
  IF at = {} THEN str ELSE Splice(str, Min(at), Min(at) + Len(pat), by)

\* str.replace(pat, by) with a string pattern: the first occurrence only
replaceFirst(str, pat, by) ==
  replaceAt(str, {p \in 1..(Len(str) + 1) : StartsAt(str, pat, p)}, pat, by)

\* [#_&@\.\-\ ]
specialCharacterSet == {"#", "_", "&", "@", ".", "-", " "}

TRIP_POINT_FIELDS ==
  << <<Lat, Lng>>,
     <<Lat, <<"l", "o", "n">> >>,
     <<Lat, <<"l", "o", "n", "g">> >>,
     << <<"l", "a", "t", "i", "t", "u", "d", "e">>,
        <<"l", "o", "n", "g", "i", "t", "u", "d", "e">> >> >>

ALTITUDE_FIELDS ==
  << <<"a", "l", "t">>, <<"a", "l", "t", "i", "t", "u", "d", "e">> >>

\* reEnd with a fault: the suffix need not end the token
reEndAnywhere(str, e) == e

\* ([#_&@\.\-\ ]|$) at position e: the position after it, 0 when neither
\* a special character nor the end of str is there
reEnd(str, e) ==
  IF e <= Len(str) /\ str[e] \in specialCharacterSet THEN e + 1
  ELSE IF e = Len(str) + 1 THEN e
  ELSE 0

\* suffix([#_&@\.\-\ ]|$) matched from position p: the position after the
\* match, 0 when it does not match
reTail(str, suffix, p) ==
  IF StartsAt(str, suffix, p) THEN reEnd(str, p + Len(suffix)) ELSE 0

\* the first alternative that matches wins
OrElse(first, second) == IF first # 0 THEN first ELSE second

\* (^|[#_&@\.\-\ ])suffix([#_&@\.\-\ ]|$) matched from position p, the
\* alternatives tried in their order: the position after the match, 0 when
\* it does not match
reAt(str, suffix, p) ==
  OrElse(IF p = 1 THEN reTail(str, suffix, p) ELSE 0,
         IF p <= Len(str) /\ str[p] \in specialCharacterSet
         THEN reTail(str, suffix, p + 1)
         ELSE 0)

\* the leftmost of the matches <<first position, position after the match>>;
\* <<>> when there is none
Leftmost(matches) ==
  IF matches = {} THEN <<>>
  ELSE CHOOSE m \in matches : \A n \in matches : m[1] <= n[1]

\* the leftmost match of the expression built from suffix
reExec(str, suffix) ==
  Leftmost({m \in {<<p, reAt(str, suffix, p)>> : p \in 1..(Len(str) + 1)} :
              m[2] # 0})

\* re.test(fieldName)
reTest(str, suffix) == reExec(str, suffix) # <<>>

\* the match m of str replaced by what the callback makes of it
replaceMatch(str, m, suffix, by) ==
  IF m = <<>> THEN str
  ELSE Splice(str, m[1], m[2],
              replaceFirst(SubSeq(str, m[1], m[2] - 1), suffix, by))

\* fieldName.replace(re, match => match.replace(suffix, by))
replaceSuffix(str, suffix, by) ==
  replaceMatch(str, reExec(str, suffix), suffix, by)

\* the match m of str replaced by ''
dropMatch(str, m) ==
  IF m = <<>> THEN str ELSE Splice(str, m[1], m[2], <<>>)

\* fieldName.replace(re, '')
removeMatch(str, suffix) == dropMatch(str, reExec(str, suffix))

\* the first of the positions hits as a 0-based index, -1 when there is none
FirstIndex(hits) == IF hits = {} THEN -1 ELSE Min(hits) - 1

\* Array.prototype.findIndex(d => d === target)
findIndex(allNames, target) ==
  FirstIndex({i \in 1..Len(allNames) : allNames[i] = target})

\* the index of the field whose name is fieldName with the suffix replaced
partnerOf(suffix, by, allNames, fieldName) ==
  findIndex(allNames, replaceSuffix(fieldName, suffix, by))

\* firstFound with a fault: the scan of the altitude suffixes does not stop
\* at the first one found, the index of the last suffix is kept
firstFoundKeepsLast(idxs) == idxs[Len(idxs)]

\* the first index found among idxs, -1 when none is
firstFound(idxs) ==
  IF \A k \in 1..Len(idxs) : idxs[k] = -1 THEN -1
  ELSE idxs[Min({k \in 1..Len(idxs) : idxs[k] > -1})]

\* ALTITUDE_FIELDS.some(...): altIdx is the index found for the first
\* altitude suffix that has a field, -1 when none has
altitudeOf(suffix, allNames, fieldName) ==
  firstFound([k \in 1..Len(ALTITUDE_FIELDS) |->
                partnerOf(suffix, ALTITUDE_FIELDS[k], allNames, fieldName)])

\* the altitude is looked for only when a partner is found
altIdxWhen(partnerIdx, altIdx) ==
  [partnerIdx |-> partnerIdx, altIdx |-> IF partnerIdx > -1 THEN altIdx ELSE -1]

\* the expression re is the one built from suffixPair[0]
foundMatchingFields(suffixPair, allNames, fieldName) ==
  altIdxWhen(partnerOf(suffixPair[1], suffixPair[2], allNames, fieldName),
             altitudeOf(suffixPair[1], allNames, fieldName))

\* pairOf with a fault: the roles of the field and its partner are swapped
pairOfSwapped(fields, idx, m) ==
  LET role(i) == [fieldIdx |-> i, value |-> fields[i + 1].name]
  IN  IF m.altIdx > -1
      THEN [lat |-> role(m.partnerIdx), lng |-> role(idx), altitude |-> role(m.altIdx)]
      ELSE [lat |-> role(m.partnerIdx), lng |-> role(idx)]

\* {lat, lng} and, when an altitude field is found, altitude
pairOf(fields, idx, m) ==
  LET role(i) == [fieldIdx |-> i, value |-> fields[i + 1].name]
  IN  IF m.altIdx > -1
      THEN [lat |-> role(idx), lng |-> role(m.partnerIdx), altitude |-> role(m.altIdx)]
      ELSE [lat |-> role(idx), lng |-> role(m.partnerIdx)]

\* defaultNameOf with a fault: an empty label is kept
defaultNameOfKeepsEmpty(trimName) == trimName

\* trimName || 'point'
defaultNameOf(trimName) ==
  IF trimName = <<>> THEN <<"p", "o", "i", "n", "t">> ELSE trimName

\* carry.push({defaultName, pair, suffix})
pushed(fields, allNames, idx, suffixPair) ==
  [defaultName |-> defaultNameOf(trim(removeMatch(allNames[idx + 1], suffixPair[1]))),
   pair |-> pairOf(fields, idx,
                   foundMatchingFields(suffixPair, allNames, allNames[idx + 1])),
   suffix |-> suffixPair]

\* the suffix pair k matches the field at idx and the field has a partner
suffixPairHits(allNames, idx, k) ==
  /\ reTest(allNames[idx + 1], TRIP_POINT_FIELDS[k][1])
  /\ foundMatchingFields(TRIP_POINT_FIELDS[k], allNames,
                         allNames[idx + 1]).partnerIdx > -1

\* pushFirst with a fault: the scan does not stop at the first suffix pair
\* that hits, the last one wins
pushFirstKeepsLast(fields, allNames, idx, hits) ==
  IF hits = {} THEN <<>>
  ELSE <<pushed(fields, allNames, idx, TRIP_POINT_FIELDS[Max(hits)])>>

\* what the scan pushes for the suffix pairs hits: the first of them only
pushFirst(fields, allNames, idx, hits) ==
  IF hits = {} THEN <<>>
  ELSE <<pushed(fields, allNames, idx, TRIP_POINT_FIELDS[Min(hits)])>>

\* what the scan of the suffix pairs pushes for the field at idx (0-based):
\* <<pair>> for the first suffix pair that matches and has a partner, <<>>
\* when no suffix pair does
fieldPairAt(fields, allNames, idx) ==
  pushFirst(fields, allNames, idx,
            {k \in 1..Len(TRIP_POINT_FIELDS) : suffixPairHits(allNames, idx, k)})

\* the pairs pushed, in the order of the fields
collect(perField) ==
  [i \in 1..Len(perField) |-> perField[i][1]]

namesOf(fields) == [i \in 1..Len(fields) |-> toLowerCase(fields[i].name)]

findPointFieldPairs(fields) ==
  collect(SelectSeq([i \in 1..Len(fields) |->
                       fieldPairAt(fields, namesOf(fields), i - 1)],
                    LAMBDA found : found # <<>>))

\* -------------------------------------------------------------------------
\* KeplerTable
\* -------------------------------------------------------------------------

\* constructor: an empty container, no fields, no filter state
NewTable ==
  [id |-> DataId,
   fields |-> <<>>,
   fieldPairs |-> <<>>,
   dataContainer |-> createDataContainer(<<>>, "ROWS_ARRAY"),
   allIndexes |-> <<>>,
   filteredIndex |-> <<>>,
   filteredIndexForDomain |-> <<>>,
   gpuFilter |-> getGpuFilterProps(<<>>, DataId, <<>>, EmptyObject)]

\* importData with a fault: the render index of the previous data is kept
importDataKeepsIndex(this, data) ==
  LET dataContainerData == IF Has(data, "cols") THEN data.cols ELSE data.rows
      inputDataFormat == IF Has(data, "cols") THEN "COLS_ARRAY" ELSE "ROWS_ARRAY"
      dataContainer == createDataContainer(dataContainerData, inputDataFormat)
      fields == [i \in 1..Len(data.fields) |->
                   LET f == data.fields[i]
                   IN  [fieldIdx |-> i - 1,
                        id |-> f.name,
                        displayName |-> GetOr(f, "displayName", f.name),
                        analyzerType |-> GetOr(f, "analyzerType", "string"),
                        format |-> GetOr(f, "format", "")] @@ f]
      allIndexes == getPlainIndex(dataContainer)
  IN  [this EXCEPT !.dataContainer = dataContainer,
                   !.allIndexes = allIndexes,
                   !.filteredIndexForDomain = allIndexes,
                   !.fieldPairs = findPointFieldPairs(fields),
                   !.fields = fields,
                   !.gpuFilter = getGpuFilterProps(<<>>, this.id, fields, EmptyObject)]

\* importData with a fault: the GPU descriptor of the previous data is kept
importDataKeepsGpuFilter(this, data) ==
  LET dataContainerData == IF Has(data, "cols") THEN data.cols ELSE data.rows
      inputDataFormat == IF Has(data, "cols") THEN "COLS_ARRAY" ELSE "ROWS_ARRAY"
      dataContainer == createDataContainer(dataContainerData, inputDataFormat)
      fields == [i \in 1..Len(data.fields) |->
                   LET f == data.fields[i]
                   IN  [fieldIdx |-> i - 1,
                        id |-> f.name,
                        displayName |-> GetOr(f, "displayName", f.name),
                        analyzerType |-> GetOr(f, "analyzerType", "string"),
                        format |-> GetOr(f, "format", "")] @@ f]
      allIndexes == getPlainIndex(dataContainer)
  IN  [this EXCEPT !.dataContainer = dataContainer,
                   !.allIndexes = allIndexes,
                   !.filteredIndex = allIndexes,
                   !.filteredIndexForDomain = allIndexes,
                   !.fieldPairs = findPointFieldPairs(fields),
                   !.fields = fields]

importData(this, data) ==
  LET dataContainerData == IF Has(data, "cols") THEN data.cols ELSE data.rows
      inputDataFormat == IF Has(data, "cols") THEN "COLS_ARRAY" ELSE "ROWS_ARRAY"
      dataContainer == createDataContainer(dataContainerData, inputDataFormat)
      fields == [i \in 1..Len(data.fields) |->
                   LET f == data.fields[i]
                   IN  [fieldIdx |-> i - 1,
                        id |-> f.name,
                        displayName |-> GetOr(f, "displayName", f.name),
                        analyzerType |-> GetOr(f, "analyzerType", "string"),
                        format |-> GetOr(f, "format", "")] @@ f]
      allIndexes == getPlainIndex(dataContainer)
  IN  [this EXCEPT !.dataContainer = dataContainer,
                   !.allIndexes = allIndexes,
                   !.filteredIndex = allIndexes,
                   !.filteredIndexForDomain = allIndexes,
                   !.fieldPairs = findPointFieldPairs(fields),
                   !.fields = fields,
                   !.gpuFilter = getGpuFilterProps(<<>>, this.id, fields, EmptyObject)]

\* update with a fault: the classification of the previous filterTable call
\* is dropped, as if the filters were reset
updateResetsFilterRecord(this, data) ==
  LET dataContainerData == IF Has(data, "cols") THEN data.cols ELSE data.rows
      dataContainer == updateDataContainer(this.dataContainer, dataContainerData)
      allIndexes == getPlainIndex(dataContainer)
      kept == [key \in DOMAIN this \ {"filterRecord"} |-> this[key]]
  IN  [kept EXCEPT !.dataContainer = dataContainer,
                   !.allIndexes = allIndexes,
                   !.filteredIndex = allIndexes,
                   !.filteredIndexForDomain = allIndexes]

update(this, data) ==
  LET dataContainerData == IF Has(data, "cols") THEN data.cols ELSE data.rows
      dataContainer == updateDataContainer(this.dataContainer, dataContainerData)
      allIndexes == getPlainIndex(dataContainer)
  IN  [this EXCEPT !.dataContainer = dataContainer,
                   !.allIndexes = allIndexes,
                   !.filteredIndex = allIndexes,
                   !.filteredIndexForDomain = allIndexes]

\* FieldOfFilter with a fault: a filter whose field is unknown is given the
\* first field of the table
FieldOfFilterFirstField(this, filter) ==
  LET fieldIndex == getDatasetFieldIndexForFilter(this.id, filter)
  IN  IF fieldIndex # -1 /\ fieldIndex < Len(this.fields)
      THEN <<this.fields[fieldIndex + 1]>>
      ELSE IF Len(this.fields) > 0 THEN <<this.fields[1]>> ELSE <<>>

\* the field a filter targets in this table: <<field>>, or <<>> for null
FieldOfFilter(this, filter) ==
  LET fieldIndex == getDatasetFieldIndexForFilter(this.id, filter)
  IN  IF fieldIndex # -1 /\ fieldIndex < Len(this.fields)
      THEN <<this.fields[fieldIndex + 1]>> ELSE <<>>

\* the result of a call: the table after it, the number of row scans it
\* made, and the caller's filter and layer lists as the call left them
Result(tbl, scans, filters, layers) ==
  [table |-> tbl, scans |-> scans, filters |-> filters, layers |-> layers]

\* applyFilterRecord with a fault: the GPU descriptor of the previous call
\* is kept
applyFilterRecordKeepsGpuFilter(this, filters, opt) ==
  LET oldFilterRecord == GetOr(this, "filterRecord", EmptyObject)
      filterRecord == getFilterRecord(this.id, filters, opt)
  IN  Set(Set(this, "filterRecord", filterRecord),
          "changedFilters", diffFilters(filterRecord, oldFilterRecord))

\* applyFilterRecord with a fault: the classification is diffed against no
\* record, as on a first call
applyFilterRecordForgetsOld(this, filters, opt) ==
  LET filterRecord == getFilterRecord(this.id, filters, opt)
  IN  Set(Set(Set(this, "filterRecord", filterRecord),
              "gpuFilter", getGpuFilterProps(filters, this.id, this.fields, this.gpuFilter)),
          "changedFilters", diffFilters(filterRecord, EmptyObject))

\* filterTable, head: classify the filters, recompute gpuFilter, diff the
\* classification against the record of the previous call
applyFilterRecord(this, filters, opt) ==
  LET oldFilterRecord == GetOr(this, "filterRecord", EmptyObject)
      filterRecord == getFilterRecord(this.id, filters, opt)
  IN  Set(Set(Set(this, "filterRecord", filterRecord),
              "gpuFilter", getGpuFilterProps(filters, this.id, this.fields, this.gpuFilter)),
          "changedFilters", diffFilters(filterRecord, oldFilterRecord))

\* resetIndexes with a fault: the domain index is not reset
resetIndexesRenderOnly(this) == Set(this, "filteredIndex", this.allIndexes)

\* filterTable, no filters: both index views are allIndexes
resetIndexes(this) ==
  Set(Set(this, "filteredIndex", this.allIndexes),
      "filteredIndexForDomain", this.allIndexes)

\* filterTable, the scan proper: one predicate per filter, then one pass
\* over the rows for the buckets that are to be recomputed; no list is
\* computed, and no row read, when neither is
scanBuckets(this, filters, layers, shouldCalDomain, shouldCalIndex) ==
  LET filterRecord == this.filterRecord
      filterFuncs ==
        [id \in {filters[k].id : k \in 1..Len(filters)} |->
           LET filter == filters[CHOOSE k \in 1..Len(filters) :
                                   /\ filters[k].id = id
                                   /\ \A j \in (k + 1)..Len(filters) : filters[j].id # id]
           IN  getFilterFunction(FieldOfFilter(this, filter), this.id, filter,
                                 layers, this.dataContainer)]
      arg ==
        ("filterFuncs" :> filterFuncs)
          @@ (IF shouldCalDomain
              THEN "dynamicDomainFilters" :> filterRecord.dynamicDomain
              ELSE EmptyObject)
          @@ (IF shouldCalIndex THEN "cpuFilters" :> filterRecord.cpu ELSE EmptyObject)
  IN  IF shouldCalDomain \/ shouldCalIndex
      THEN [filterResult |-> filterDataByFilterTypes(arg, this.dataContainer),
            scans |-> 1]
      ELSE [filterResult |-> EmptyObject, scans |-> 0]

\* scanRows with a fault: shouldCalIndex reads the dynamicDomain entry
scanRowsByDomainFlag(this, filters, layers) ==
  scanBuckets(this, filters, layers,
              BucketChanged(this.changedFilters, "dynamicDomain"),
              BucketChanged(this.changedFilters, "dynamicDomain"))

\* scanRows with a fault: the rows are scanned whether or not a bucket changed
scanRowsAlways(this, filters, layers) ==
  scanBuckets(this, filters, layers, TRUE, TRUE)

\* scanRows with a fault: a change in either bucket recomputes both lists
scanRowsBothBuckets(this, filters, layers) ==
  LET either == BucketChanged(this.changedFilters, "dynamicDomain")
                  \/ BucketChanged(this.changedFilters, "cpu")
  IN  scanBuckets(this, filters, layers, either, either)

\* filterTable, the decision: the buckets that changed since the previous
\* call are the ones recomputed
scanRows(this, filters, layers) ==
  scanBuckets(this, filters, layers,
              BucketChanged(this.changedFilters, "dynamicDomain"),
              BucketChanged(this.changedFilters, "cpu"))

\* filterTable, tail: a list the scan produced replaces the index view, the
\* other view keeps its value
assignIndexes(this, filterResult) ==
  Set(Set(this, "filteredIndex",
          GetOr(filterResult, "filteredIndex", this.filteredIndex)),
      "filteredIndexForDomain",
      GetOr(filterResult, "filteredIndexForDomain", this.filteredIndexForDomain))

filterTable(this, filters, layers, opt) ==
  LET t1 == applyFilterRecord(this, filters, opt)
      scan == scanRows(t1, filters, layers)
  IN  IF Len(filters) = 0
      THEN Result(resetIndexes(t1), 0, filters, layers)
      ELSE Result(assignIndexes(t1, scan.filterResult), scan.scans, filters, layers)

\* Object.assign(Object.create(prototype), original): a new object with the
\* original's own properties
copyTable(original) == [key \in DOMAIN original |-> original[key]]

\* filterOnCopy with a fault: the table itself is filtered, not a copy
filterInPlace(this, filters, layers, opt) ==
  LET aliased0 == IF Has(this, "filterRecordCPU")
                  THEN Set(this, "filterRecord", this.filterRecordCPU)
                  ELSE [key \in DOMAIN this \ {"filterRecord"} |-> this[key]]
      aliased == Set(aliased0, "filteredIndex", GetOr(this, "filteredIdxCPU", <<>>))
      res == filterTable(aliased, filters, layers, opt)
      filtered == res.table
  IN  Result(Set(Set(filtered, "filteredIdxCPU", filtered.filteredIndex),
                 "filterRecordCPU", filtered.filterRecord),
             res.scans, res.filters, res.layers)

\* filterOnCopy with a fault: the filters are forced to the CPU by clearing
\* their gpu flag in place
filterOnCopyClearsGpuFlag(this, filters, layers, opt) ==
  LET cleared == [k \in 1..Len(filters) |-> [filters[k] EXCEPT !.gpu = FALSE]]
      copied0 == copyTable(this)
      copied1 == IF Has(this, "filterRecordCPU")
                 THEN Set(copied0, "filterRecord", this.filterRecordCPU)
                 ELSE [key \in DOMAIN copied0 \ {"filterRecord"} |-> copied0[key]]
      copied == Set(copied1, "filteredIndex", GetOr(this, "filteredIdxCPU", <<>>))
      res == filterTable(copied, cleared, layers, opt)
      filtered == res.table
  IN  Result(Set(Set(this, "filteredIdxCPU", filtered.filteredIndex),
                 "filterRecordCPU", filtered.filterRecord),
             res.scans, res.filters, res.layers)

\* filterTableCPU, some filter is gpu:true: filter a copy of the table whose
\* filter state is the CPU shadow state, and take its index and record
filterOnCopy(this, filters, layers, opt) ==
  LET copied0 == copyTable(this)
      \* copied.filterRecord = this.filterRecordCPU, possibly undefined
      copied1 == IF Has(this, "filterRecordCPU")
                 THEN Set(copied0, "filterRecord", this.filterRecordCPU)
                 ELSE [key \in DOMAIN copied0 \ {"filterRecord"} |-> copied0[key]]
      copied == Set(copied1, "filteredIndex", GetOr(this, "filteredIdxCPU", <<>>))
      res == filterTable(copied, filters, layers, opt)
      filtered == res.table
  IN  Result(Set(Set(this, "filteredIdxCPU", filtered.filteredIndex),
                 "filterRecordCPU", filtered.filterRecord),
             res.scans, res.filters, res.layers)

filterTableCPU(this, filters, layers) ==
  LET opt == CpuOpt
  IN  IF Len(filters) = 0
      THEN Result(Set(Set(this, "filteredIdxCPU", this.allIndexes),
                      "filterRecordCPU", getFilterRecord(this.id, filters, opt)),
                  0, filters, layers)
      ELSE IF ~\E k \in 1..Len(filters) : filters[k].gpu
      THEN Result(Set(Set(this, "filteredIdxCPU", this.filteredIndex),
                      "filterRecordCPU", getFilterRecord(this.id, filters, opt)),
                  0, filters, layers)
      ELSE filterOnCopy(this, filters, layers, opt)

\* -------------------------------------------------------------------------
\* Columns: accessors, filter props, sorting, pinning
\* -------------------------------------------------------------------------

\* what a JavaScript call returns: undefined, null, or a value
Undefined == [kind |-> "undefined"]

Null == [kind |-> "null"]

Value(v) == [kind |-> "value", value |-> v]

\* the outcome of a call on a column: the table after it (for pinTableColumns
\* the table returned), what it returned ("dataset" for the dataset object
\* it was given, "copy" for a new table object), what it wrote with
\* Console.error, and how many times it computed a field domain over the rows
Answer(tbl, returned, logged, domainScans) ==
  [table |-> tbl, returned |-> returned, logged |-> logged,
   domainScans |-> domainScans]

\* _assetField with a fault: nothing is logged
_assetFieldSilent(this, fieldName, condition) == <<>>

\* _assetField: the messages written, one when the condition is falsy
_assetField(this, fieldName, condition) ==
  IF ~condition THEN <<[fieldName |-> fieldName, dataset |-> this.id]>> ELSE <<>>

\* fields.findIndex(fd => fd[FID_KEY] === columnName)
findFieldIdx(fields, columnName) ==
  FirstIndex({i \in 1..Len(fields) : fields[i].name = columnName})

\* the element of fields at a 0-based index, undefined at -1
fieldAt(fields, fieldIdx) ==
  IF fieldIdx > -1 THEN Value(fields[fieldIdx + 1]) ELSE Undefined

getColumnField(this, columnName) ==
  Answer(this,
         fieldAt(this.fields, findFieldIdx(this.fields, columnName)),
         _assetField(this, columnName, findFieldIdx(this.fields, columnName) > -1),
         0)

getColumnFieldIdx(this, columnName) ==
  Answer(this,
         Value(findFieldIdx(this.fields, columnName)),
         _assetField(this, columnName, findFieldIdx(this.fields, columnName) > -1),
         0)

\* field?.displayFormat
displayFormatOf(found) ==
  IF found.kind = "value" /\ Has(found.value, "displayFormat")
  THEN Value(found.value.displayFormat)
  ELSE Undefined

getColumnDisplayFormat(this, columnName) ==
  Answer(this,
         displayFormatOf(fieldAt(this.fields, findFieldIdx(this.fields, columnName))),
         _assetField(this, columnName, findFieldIdx(this.fields, columnName) > -1),
         0)

\* timeToUnixMilli on a number: seconds (format 'x') become milliseconds
timeToUnixMilli(value, format) ==
  IF format = "x" THEN value * 1000 ELSE value

\* maybeToDate(isTime, fieldIdx, format, dc, {index})
maybeToDate(isTime, fieldIdx, format, dc, index) ==
  IF isTime THEN timeToUnixMilli(valueAt(dc, index, fieldIdx), format)
  ELSE valueAt(dc, index, fieldIdx)

\* field.valueAccessor({index}): getFieldValueAccessor binds the accessor to
\* the field's type, position and format and to the container of the table
valueAccessor(field, dc, index) ==
  maybeToDate(GetOr(field, "type", "") = "timestamp", field.fieldIdx,
              field.format, dc, index)

\* field ? field.valueAccessor({index: rowIdx}) : null
valueOrNull(found, dc, rowIdx) ==
  IF found.kind = "value" THEN Value(valueAccessor(found.value, dc, rowIdx))
  ELSE Null

getValue(this, columnName, rowIdx) ==
  Answer(this,
         valueOrNull(getColumnField(this, columnName).returned,
                     this.dataContainer, rowIdx),
         getColumnField(this, columnName).logged,
         0)

\* Object.assign([...this.fields], {[fieldIdx]: newField}) with a fault: the
\* new field is appended instead of replacing the old one
updateColumnFieldAppends(this, fieldIdx, newField) ==
  Set(this, "fields", Append(this.fields, newField))

\* this.fields = Object.assign([...this.fields], {[fieldIdx]: newField})
updateColumnField(this, fieldIdx, newField) ==
  Set(this, "fields", [this.fields EXCEPT ![fieldIdx + 1] = newField])

\* the values of a column, row by row
columnValues(dc, field) ==
  [i \in 1..numRows(dc) |-> valueAccessor(field, dc, i - 1)]

\* a cell is a positive number, or 0, which stands for null
notNullorUndefined(d) == d # 0

\* the distinct non-null values of a sequence in the order in which they
\* are first seen
FirstSeen(values) ==
  LET firsts == {i \in 1..Len(values) :
                   /\ notNullorUndefined(values[i])
                   /\ \A j \in 1..(i - 1) : values[j] # values[i]}
  IN  [k \in 1..Cardinality(firsts) |->
         values[CHOOSE i \in firsts : Cardinality({h \in firsts : h <= i}) = k]]

\* [min, max] of the non-null values
extentOf(S) == <<Min(S), Max(S)>>

getNumericFieldDomain(dc, field) ==
  [domain |-> extentOf({v \in Range(columnValues(dc, field)) : notNullorUndefined(v)})]

\* the distinct non-null values in first-seen order
getOrdinalDomain(dc, field) == FirstSeen(columnValues(dc, field))

getTimestampFieldDomain(dc, field) ==
  [domain |-> extentOf({v \in Range(columnValues(dc, field)) : notNullorUndefined(v)})]

getColumnFilterDomain(this, field) ==
  LET type == GetOr(field, "type", "")
  IN  IF type \in {"real", "integer"}
      THEN getNumericFieldDomain(this.dataContainer, field)
      ELSE IF type = "boolean" THEN [domain |-> <<TRUE, FALSE>>]
      ELSE IF type \in {"string", "h3", "date"}
      THEN [domain |-> getOrdinalDomain(this.dataContainer, field)]
      ELSE IF type = "timestamp"
      THEN getTimestampFieldDomain(this.dataContainer, field)
      ELSE [domain |-> getOrdinalDomain(this.dataContainer, field)]

\* getFilterProps: the domain with the default filter type and value of the
\* field type
getFilterProps(field, fieldDomain) ==
  LET type == GetOr(field, "type", "")
  IN  IF type \in {"real", "integer"}
      THEN [value |-> fieldDomain.domain, type |-> "range", gpu |-> TRUE] @@ fieldDomain
      ELSE IF type = "boolean"
      THEN [value |-> TRUE, type |-> "select", gpu |-> FALSE] @@ fieldDomain
      ELSE IF type = "timestamp"
      THEN [value |-> fieldDomain.domain, type |-> "timeRange", gpu |-> TRUE]
             @@ fieldDomain
      ELSE [value |-> <<>>, type |-> "multiSelect", gpu |-> FALSE] @@ fieldDomain

\* getColumnFilterProps from the point where the field has no own
\* filterProps: compute the domain, store the props on a new field object
storeFilterProps(this, fieldIdx, field, filterProps, logged) ==
  Answer(updateColumnField(this, fieldIdx, Set(field, "filterProps", filterProps)),
         Value(filterProps), logged, 1)

\* filterPropsOfField with a fault: the domain is computed on every call
filterPropsOfFieldAlways(this, fieldIdx, field, logged) ==
  storeFilterProps(this, fieldIdx, field,
                   getFilterProps(field, getColumnFilterDomain(this, field)),
                   logged)

\* getColumnFilterProps for a field of the table
filterPropsOfField(this, fieldIdx, field, logged) ==
  IF Has(field, "filterProps")
  THEN Answer(this, Value(field.filterProps), logged, 0)
  ELSE storeFilterProps(this, fieldIdx, field,
                        getFilterProps(field, getColumnFilterDomain(this, field)),
                        logged)

\* getColumnFilterProps for the index getColumnFieldIdx answered
filterPropsAt(this, found) ==
  IF found.returned.value < 0
  THEN Answer(this, Null, found.logged, 0)
  ELSE filterPropsOfField(this, found.returned.value,
                          this.fields[found.returned.value + 1], found.logged)

getColumnFilterProps(this, columnName) ==
  filterPropsAt(this, getColumnFieldIdx(this, columnName))

\* the scale types getColumnLayerDomain knows
SCALE_TYPES ==
  [ordinal |-> "ordinal", quantile |-> "quantile", quantize |-> "quantize",
   linear |-> "linear", sqrt |-> "sqrt", log |-> "log", point |-> "point",
   custom |-> "custom", customOrdinal |-> "customOrdinal"]

\* the values of a column at the rows of an index, in the order of the index
indexValues(index, field, dc) ==
  [k \in 1..Len(index) |-> valueAccessor(field, dc, index[k])]

\* the non-null values of a sequence in ascending order, equal values kept
sortedValues(values) ==
  LET kept == SelectSeq(values, notNullorUndefined)
      rank == [k \in 1..Len(kept) |->
                 Cardinality({j \in 1..Len(kept) :
                                kept[j] < kept[k] \/ (kept[j] = kept[k] /\ j < k)})]
  IN  [r \in 1..Len(kept) |-> kept[CHOOSE k \in 1..Len(kept) : rank[k] = r - 1]]

\* getQuantileDomain: the non-null values of the rows of the index, sorted
getQuantileDomain(index, field, dc) == sortedValues(indexValues(index, field, dc))

\* d3 extent of the non-null values, an absent bound replaced by its
\* position: [0, 1] for no value
linearOf(values) ==
  IF values = {} THEN <<0, 1>> ELSE extentOf(values)

\* getLinearDomain: [min, max] of the values of the rows of the index
getLinearDomain(index, field, dc) ==
  linearOf({v \in Range(indexValues(index, field, dc)) : notNullorUndefined(v)})

\* getLogDomain: the linear domain; its lower bound is never 0 here, a
\* cell being a positive number
getLogDomain(index, field, dc) == getLinearDomain(index, field, dc)

\* layerDomainOf with a fault: the quantile, log and linear domains are
\* computed over all rows
layerDomainOfAllRows(this, field, scaleType) ==
  IF scaleType \in {SCALE_TYPES.ordinal, SCALE_TYPES.customOrdinal, SCALE_TYPES.point}
  THEN getOrdinalDomain(this.dataContainer, field)
  ELSE IF scaleType = SCALE_TYPES.quantile
  THEN getQuantileDomain(this.allIndexes, field, this.dataContainer)
  ELSE IF scaleType = SCALE_TYPES.log
  THEN getLogDomain(this.allIndexes, field, this.dataContainer)
  ELSE getLinearDomain(this.allIndexes, field, this.dataContainer)

\* the switch of getColumnLayerDomain on a known scale type
layerDomainOf(this, field, scaleType) ==
  IF scaleType \in {SCALE_TYPES.ordinal, SCALE_TYPES.customOrdinal, SCALE_TYPES.point}
  THEN getOrdinalDomain(this.dataContainer, field)
  ELSE IF scaleType = SCALE_TYPES.quantile
  THEN getQuantileDomain(this.filteredIndexForDomain, field, this.dataContainer)
  ELSE IF scaleType = SCALE_TYPES.log
  THEN getLogDomain(this.filteredIndexForDomain, field, this.dataContainer)
  ELSE getLinearDomain(this.filteredIndexForDomain, field, this.dataContainer)

\* getColumnLayerDomain: null, with an error logged, for a scale type that
\* SCALE_TYPES does not hold
getColumnLayerDomain(this, field, scaleType) ==
  IF scaleType \notin DOMAIN SCALE_TYPES
  THEN Answer(this, Null, <<[scaleType |-> scaleType]>>, 0)
  ELSE Answer(this, Value(layerDomainOf(this, field, scaleType)), <<>>, 0)

\* the scale functions by scale type, each named after the d3 scale it is
SCALE_FUNC ==
  [linear |-> "scaleLinear", quantize |-> "scaleQuantize",
   quantile |-> "scaleQuantile", ordinal |-> "scaleOrdinal",
   sqrt |-> "scaleSqrt", log |-> "scaleLog", point |-> "scalePoint"]

\* SCALE_FUNC[scaleType], undefined for undefined and for an unknown type
scaleFuncOf(scaleType) ==
  IF scaleType.kind = "value" /\ scaleType.value \in DOMAIN SCALE_FUNC
  THEN Value(SCALE_FUNC[scaleType.value])
  ELSE Undefined

\* warnUnsupported with a fault: no warning is written
warnUnsupportedNever(scaleType, found) == <<>>

\* Console.warn when !scaleType || !SCALE_FUNC[scaleType]
warnUnsupported(scaleType, found) ==
  IF scaleType.kind # "value" \/ scaleType.value = "" \/ found.kind # "value"
  THEN <<[scale |-> scaleType]>>
  ELSE <<>>

\* SCALE_FUNC[scaleType] || SCALE_FUNC.quantize
scaleOrQuantize(found) ==
  IF found.kind = "value" THEN found ELSE Value(SCALE_FUNC.quantize)

\* getScaleFunctor: the scale function and the warnings written
getScaleFunctor(scaleType) ==
  [returned |-> scaleOrQuantize(scaleFuncOf(scaleType)),
   logged |-> warnUnsupported(scaleType, scaleFuncOf(scaleType))]

SORT_ORDER == [ASCENDING |-> "asc", DESCENDING |-> "desc", UNSORT |-> "unsort"]

\* d3-array ascending and descending; NaN, which Array.prototype.sort takes
\* for 0, when a value is null
ascending(a, b) ==
  IF ~notNullorUndefined(a) \/ ~notNullorUndefined(b) THEN 0
  ELSE IF a < b THEN -1 ELSE IF a > b THEN 1 ELSE 0

descending(a, b) ==
  IF ~notNullorUndefined(a) \/ ~notNullorUndefined(b) THEN 0
  ELSE IF b < a THEN -1 ELSE IF b > a THEN 1 ELSE 0

\* compareCells with a fault: null cells are left to the sort function
compareCellsBySortFunction(sortBy, value1, value2) ==
  IF sortBy = SORT_ORDER.ASCENDING THEN ascending(value1, value2)
  ELSE descending(value1, value2)

\* the comparator of sortDatasetByColumn on two cell values
compareCells(sortBy, value1, value2) ==
  IF ~notNullorUndefined(value1) /\ notNullorUndefined(value2) THEN 1
  ELSE IF notNullorUndefined(value1) /\ ~notNullorUndefined(value2) THEN -1
  ELSE IF sortBy = SORT_ORDER.ASCENDING THEN ascending(value1, value2)
  ELSE descending(value1, value2)

\* sortRows with a fault: the rows with a null cell are dropped
sortRowsNoNulls(rows, dc, fieldIndex, sortBy) ==
  SelectSeq(rows, LAMBDA row : notNullorUndefined(valueAt(dc, row, fieldIndex)))

\* Array.prototype.sort: stable, so a row comes after the rows that compare
\* lower and after the rows before it that compare equal
sortRows(rows, dc, fieldIndex, sortBy) ==
  LET cmp(k, j) == compareCells(sortBy, valueAt(dc, rows[k], fieldIndex),
                                valueAt(dc, rows[j], fieldIndex))
      rank == [k \in 1..Len(rows) |->
                 Cardinality({j \in 1..Len(rows) :
                                cmp(j, k) < 0 \/ (cmp(j, k) = 0 /\ j < k)})]
  IN  [r \in 1..Len(rows) |-> rows[CHOOSE k \in 1..Len(rows) : rank[k] = r - 1]]

\* SORT_ORDER[mode || ''] || SORT_ORDER.ASCENDING
sortByOf(mode) ==
  IF mode \in DOMAIN SORT_ORDER THEN SORT_ORDER[mode] ELSE SORT_ORDER.ASCENDING

\* sortByField with a fault: UNSORT keeps the sort column
sortByFieldKeepsColumn(dataset, column, fieldIndex, sortBy) ==
  IF sortBy = SORT_ORDER.UNSORT
  THEN Set(dataset, "sortOrder", Null)
  ELSE Set(Set(dataset, "sortColumn", column :> sortBy),
           "sortOrder",
           Value(sortRows(dataset.allIndexes, dataset.dataContainer,
                          fieldIndex, sortBy)))

\* sortDatasetByColumn for a column of the table
sortByField(dataset, column, fieldIndex, sortBy) ==
  IF sortBy = SORT_ORDER.UNSORT
  THEN Set(Set(dataset, "sortColumn", EmptyObject), "sortOrder", Null)
  ELSE Set(Set(dataset, "sortColumn", column :> sortBy),
           "sortOrder",
           Value(sortRows(dataset.allIndexes, dataset.dataContainer,
                          fieldIndex, sortBy)))

\* sortDatasetByColumn: the dataset itself is changed and returned
sortDatasetByColumn(dataset, column, mode) ==
  IF findFieldIdx(dataset.fields, column) < 0
  THEN Answer(dataset, Value("dataset"), <<>>, 0)
  ELSE Answer(sortByField(dataset, column, findFieldIdx(dataset.fields, column),
                          sortByOf(mode)),
              Value("dataset"), <<>>, 0)

\* copyTableAndUpdate(original, {pinnedColumns})
copyTableAndUpdate(original, key, value) == Set(copyTable(original), key, value)

\* the pinned columns with the column toggled
togglePinned(pinnedColumns, name) ==
  IF \E k \in 1..Len(pinnedColumns) : pinnedColumns[k] = name
  THEN SelectSeq(pinnedColumns, LAMBDA co : co # name)
  ELSE Append(pinnedColumns, name)

\* pinField with a fault: the pinned columns are assigned to the dataset
\* itself, which is returned
pinFieldInPlace(dataset, found) ==
  IF found.returned.kind # "value"
  THEN [original |-> dataset] @@ Answer(dataset, Value("dataset"), found.logged, 0)
  ELSE LET pinned == Set(dataset, "pinnedColumns",
                         togglePinned(GetOr(dataset, "pinnedColumns", <<>>),
                                      found.returned.value.name))
       IN  [original |-> pinned] @@ Answer(pinned, Value("dataset"), found.logged, 0)

\* pinTableColumns for the field getColumnField answered: the table returned
\* is the dataset itself for an unknown column, a copy otherwise; original
\* is the dataset object as the call leaves it, which nothing assigns to
pinField(dataset, found) ==
  IF found.returned.kind # "value"
  THEN [original |-> dataset] @@ Answer(dataset, Value("dataset"), found.logged, 0)
  ELSE [original |-> dataset]
         @@ Answer(copyTableAndUpdate(dataset, "pinnedColumns",
                     togglePinned(GetOr(dataset, "pinnedColumns", <<>>),
                                  found.returned.value.name)),
                   Value("copy"), found.logged, 0)

pinTableColumns(dataset, column) == pinField(dataset, getColumnField(dataset, column))

\* -------------------------------------------------------------------------
\* The calls a client makes
\* -------------------------------------------------------------------------

Field(name) == [name |-> name]

\* the field descriptors of the payload: an integer column and a string
\* column with a display format
ImportFields ==
  << Set(Field(Lat), "type", "integer"),
     Set(Set(Field(Lng), "type", "string"), "displayFormat", ".2f") >>

\* ProtoDataset['data'] payloads: row-major and column-major
Payloads ==
  { [fields |-> ImportFields, rows |-> << <<1, 1>>, <<2, 1>> >>],
    [fields |-> ImportFields, cols |-> << <<1, 2>>, <<2, 2>> >>] }

\* the row update() appends, in the layout of the container
UpdatePayload(dc) ==
  IF dc.format = "ROWS_ARRAY"
  THEN [fields |-> ImportFields, rows |-> << <<1, 1>> >>]
  ELSE [fields |-> ImportFields, cols |-> << <<1>>, <<1>> >>]

\* -------------------------------------------------------------------------
\* CPUAggregator: the aggregation step and the update steps of each
\* dimension.  props is an object of JavaScript values; a function, an array
\* or a data set is a value that names it, so that !== compares identities.
\* The bins, the value domain and the scale function are kept as what they
\* were built from.  An updater either finishes or throws, and what the
\* updaters before it wrote to the state stays written.
\* -------------------------------------------------------------------------

\* a thrown error, in the place of a returned value
Throw(error) == [kind |-> "throw", value |-> error]

Function(f) == [kind |-> "function", value |-> f]

Bool(b) == [kind |-> "boolean", value |-> b]

\* if (value), for the values the props hold: undefined, null and false
\* are falsy
Truthy(value) ==
  CASE value.kind \in {"undefined", "null"} -> FALSE
    [] value.kind = "boolean" -> value.value
    [] OTHER -> TRUE

\* !aggregation: undefined, null and the empty string
NoAggregation(aggregation) ==
  aggregation.kind \in {"undefined", "null"} \/ aggregation.value = <<>>

\* props[name]
PropOf(props, name) == GetOr(props, name, Undefined)

\* the operations of the aggregation layers, by name
Sum == <<"S", "U", "M">>

AGGREGATION_OPERATION ==
  [key \in {Sum, <<"M", "E", "A", "N">>, <<"M", "I", "N">>, <<"M", "A", "X">>}
     |-> key]

DECK_AGGREGATION_MAP ==
  [op \in DOMAIN AGGREGATION_OPERATION |->
     CASE op = AGGREGATION_OPERATION[Sum] -> "sum"
       [] op = AGGREGATION_OPERATION[<<"M", "E", "A", "N">>] -> "average"
       [] op = AGGREGATION_OPERATION[<<"M", "I", "N">>] -> "minimum"
       [] op = AGGREGATION_OPERATION[<<"M", "A", "X">>] -> "maximum"]

upperCaseOf(char) ==
  CASE char = "s" -> "S" [] char = "u" -> "U" [] char = "m" -> "M"
    [] char = "e" -> "E" [] char = "a" -> "A" [] char = "n" -> "N"
    [] char = "i" -> "I" [] char = "x" -> "X" [] char = "d" -> "D"
    [] OTHER -> char

toUpperCase(string) == [i \in 1..Len(string) |-> upperCaseOf(string[i])]

\* AGGREGATION_OPERATION[aggregation.toUpperCase()] of a string
operationOf(aggregation) ==
  IF toUpperCase(aggregation.value) \in DOMAIN AGGREGATION_OPERATION
  THEN Value(AGGREGATION_OPERATION[toUpperCase(aggregation.value)])
  ELSE Undefined

\* Console.warn when !aggregation || !AGGREGATION_OPERATION[...]
warnAggregation(aggregation) ==
  IF NoAggregation(aggregation) \/ operationOf(aggregation).kind # "value"
  THEN <<[aggregation |-> aggregation]>>
  ELSE <<>>

\* AGGREGATION_OPERATION[aggregation.toUpperCase()] || AGGREGATION_OPERATION.SUM
operationOrSum(aggregation) ==
  IF operationOf(aggregation).kind = "value"
  THEN operationOf(aggregation).value
  ELSE AGGREGATION_OPERATION[Sum]

\* getValueFunc: the function built and the warnings written;
\* aggregation.toUpperCase() of null or undefined throws a TypeError
getValueFunc(aggregation, accessor) ==
  IF aggregation.kind \in {"undefined", "null"}
  THEN [returned |-> Throw("TypeError"), logged |-> warnAggregation(aggregation)]
  ELSE [returned |-> Function([aggregate |-> DECK_AGGREGATION_MAP[operationOrSum(aggregation)],
                               accessor |-> accessor]),
        logged |-> warnAggregation(aggregation)]

\* what an updater leaves: the aggregator, whether it threw, what it wrote
\* to the console and which onSet callbacks it called
Outcome(self, threw, logged) == [self |-> self, threw |-> threw, logged |-> logged]

setState(self, updateObject) == [self EXCEPT !.state = updateObject @@ self.state]

_setDimensionState(self, key, updateObject) ==
  setState(self,
           [dimensions |-> Set(self.state.dimensions, key,
                               updateObject @@ GetOr(self.state.dimensions, key, EmptyObject))])

\* getGetValue, with what props[value.prop] and getValueFunc gave
setGetValue(self, key, valueFunc, logged) ==
  IF valueFunc.kind = "throw" THEN Outcome(self, TRUE, logged)
  ELSE IF Truthy(valueFunc)
       THEN Outcome(_setDimensionState(self, key, [getValue |-> valueFunc]), FALSE, logged)
       ELSE Outcome(self, FALSE, logged)

getGetValue(self, step, props, dimensionUpdater) ==
  IF PropOf(props, step.triggers.value.prop).kind = "null"
  THEN setGetValue(self, dimensionUpdater.key,
                   getValueFunc(PropOf(props, step.triggers.aggregation.prop),
                                PropOf(props, step.triggers.weight.prop)).returned,
                   getValueFunc(PropOf(props, step.triggers.aggregation.prop),
                                PropOf(props, step.triggers.weight.prop)).logged)
  ELSE setGetValue(self, dimensionUpdater.key, PropOf(props, step.triggers.value.prop), <<>>)

\* new BinSorter(bins, {getValue, filterData})
BinSorter(bins, valueFunc, filterData) ==
  [kind |-> "BinSorter", bins |-> bins, getValue |-> valueFunc, filterData |-> filterData]

\* this.state.layerData.data || []
dataOrEmpty(layerData) ==
  IF Truthy(GetOr(layerData, "data", Undefined)) THEN layerData.data ELSE Value(<<>>)

\* getDimensionSortedBins; reading getValue of a dimension that has no state
\* throws a TypeError
getDimensionSortedBins(self, step, props, dimensionUpdater) ==
  IF ~Has(self.state.dimensions, dimensionUpdater.key)
  THEN Outcome(self, TRUE, <<>>)
  ELSE Outcome(_setDimensionState(self, dimensionUpdater.key,
                 [sortedBins |->
                    BinSorter(dataOrEmpty(self.state.layerData),
                              GetOr(self.state.dimensions[dimensionUpdater.key],
                                    "getValue", Undefined),
                              PropOf(props, "_filterData"))]),
               FALSE, <<>>)

\* the breaks of a custom color map: cur[0] of every entry where it is finite
customBreaks(colorMap) ==
  LET finite == SelectSeq(colorMap, LAMBDA cur : cur[1].kind = "value")
  IN  [i \in 1..Len(finite) |-> finite[i][1].value]

\* sortedBins.getValueDomainByScale(scale, [lower, upper]), or the custom breaks
valueDomainOf(sortedBins, props, triggers) ==
  IF /\ PropOf(props, "colorScaleType") = Value("custom")
     /\ Truthy(PropOf(props, "colorMap"))
  THEN Value(customBreaks(props.colorMap.value))
  ELSE [kind |-> "valueDomain", sortedBins |-> sortedBins,
        scale |-> PropOf(props, triggers.scaleType.prop),
        lower |-> PropOf(props, triggers.lowerPercentile.prop),
        upper |-> PropOf(props, triggers.upperPercentile.prop)]

\* getDimensionValueDomain; reading sortedBins of a dimension that has no
\* state throws a TypeError
getDimensionValueDomain(self, step, props, dimensionUpdater) ==
  IF ~Has(self.state.dimensions, dimensionUpdater.key)
  THEN Outcome(self, TRUE, <<>>)
  ELSE IF ~Has(self.state.dimensions[dimensionUpdater.key], "sortedBins")
       THEN Outcome(self, FALSE, <<>>)
       ELSE Outcome(_setDimensionState(self, dimensionUpdater.key,
                      [valueDomain |->
                         valueDomainOf(self.state.dimensions[dimensionUpdater.key].sortedBins,
                                       props, step.triggers)]),
                    FALSE, <<>>)

\* props[domain.prop] || this.state.dimensions[key].valueDomain
dimensionDomainOf(self, key, props, triggers) ==
  IF Truthy(PropOf(props, triggers.domain.prop))
  THEN PropOf(props, triggers.domain.prop)
  ELSE self.state.dimensions[key].valueDomain

\* Boolean(fixed && props[fixed.prop])
dimensionFixedOf(props, triggers) ==
  Has(triggers, "fixed") /\ Truthy(PropOf(props, triggers.fixed.prop))

\* getScaleFunctor(...)().domain(domain).range(fixed ? domain : range),
\* with scaleFunc.scaleType = props.colorScaleType
scaleFuncOfDimension(functor, domain, range, fixed, props) ==
  [kind |-> "function", scale |-> functor, domain |-> domain,
   range |-> IF fixed THEN domain ELSE range,
   scaleType |-> PropOf(props, "colorScaleType")]

\* props[onSet.props]({domain, aggregatedBins}) when it is a function
onSetCalls(step, props, domain) ==
  IF Has(step, "onSet") /\ PropOf(props, step.onSet.props).kind = "function"
  THEN <<[onSet |-> step.onSet.props, domain |-> domain]>>
  ELSE <<>>

\* getDimensionScale; reading valueDomain of a dimension that has no state
\* throws a TypeError
getDimensionScale(self, step, props, dimensionUpdater) ==
  IF ~Has(self.state.dimensions, dimensionUpdater.key)
  THEN Outcome(self, TRUE, <<>>)
  ELSE IF ~Has(self.state.dimensions[dimensionUpdater.key], "valueDomain")
       THEN Outcome(self, FALSE, <<>>)
       ELSE Outcome(
              _setDimensionState(self, dimensionUpdater.key,
                [scaleFunc |->
                   scaleFuncOfDimension(
                     getScaleFunctor(PropOf(props, step.triggers.scaleType.prop)).returned.value,
                     dimensionDomainOf(self, dimensionUpdater.key, props, step.triggers),
                     PropOf(props, step.triggers.range.prop),
                     dimensionFixedOf(props, step.triggers), props)]),
              FALSE,
              getScaleFunctor(PropOf(props, step.triggers.scaleType.prop)).logged
                \o onSetCalls(step, props,
                              dimensionDomainOf(self, dimensionUpdater.key, props,
                                                step.triggers)))

\* normalizeResult: the hexagons or the layerData of a result are its data,
\* unless it has data of its own
normalizeResult(result) ==
  IF Truthy(GetOr(result, "hexagons", Undefined))
  THEN result @@ [data |-> result.hexagons]
  ELSE IF Truthy(GetOr(result, "layerData", Undefined))
       THEN result @@ [data |-> result.layerData]
       ELSE result

\* aggregator(props, aggregationParams): the cells, under the property the
\* aggregator names them by
aggregatorResult(aggr, props, aggregationParams) ==
  LET cells == Value([by |-> aggr.value, data |-> PropOf(props, "data"),
                      cellSize |-> PropOf(props, "cellSize"),
                      params |-> aggregationParams])
  IN  CASE aggr.value = "hexagonAggregator" -> [hexagons |-> cells]
        [] aggr.value = "clusterAggregator" -> [layerData |-> cells]
        [] OTHER -> [data |-> cells]

\* getAggregatedData; calling an aggregator that is not a function throws
getAggregatedData(self, step, props, aggregationParams) ==
  IF PropOf(props, step.triggers.aggregator.prop).kind # "function"
  THEN Outcome(self, TRUE, <<>>)
  ELSE Outcome(setState(self,
                 [layerData |->
                    normalizeResult(
                      aggregatorResult(PropOf(props, step.triggers.aggregator.prop),
                                       props, aggregationParams))]),
               FALSE, <<>>)

\* a trigger of a step; updateTrigger is "" where the source names none
Trigger(prop, updateTrigger) == [prop |-> prop, updateTrigger |-> updateTrigger]

defaultAggregation ==
  [key |-> "position",
   updateSteps |-> <<
     [key |-> "aggregate",
      triggers |-> [cellSize |-> Trigger("cellSize", ""),
                    position |-> Trigger("getPosition", "getPosition"),
                    aggregator |-> Trigger("gridAggregator", "")],
      updater |-> "getAggregatedData"] >>]

defaultColorDimension ==
  [key |-> "fillColor",
   updateSteps |-> <<
     [key |-> "getValue",
      triggers |-> [value |-> Trigger("getColorValue", "getColorValue"),
                    weight |-> Trigger("getColorWeight", "getColorWeight"),
                    aggregation |-> Trigger("colorAggregation", "")],
      updater |-> "getGetValue"],
     [key |-> "getBins",
      triggers |-> [_filterData |-> Trigger("_filterData", "_filterData")],
      updater |-> "getDimensionSortedBins"],
     [key |-> "getDomain",
      triggers |-> [lowerPercentile |-> Trigger("lowerPercentile", ""),
                    upperPercentile |-> Trigger("upperPercentile", ""),
                    scaleType |-> Trigger("colorScaleType", "")],
      updater |-> "getDimensionValueDomain"],
     [key |-> "getScaleFunc",
      triggers |-> [domain |-> Trigger("colorDomain", ""),
                    range |-> Trigger("colorRange", ""),
                    scaleType |-> Trigger("colorScaleType", "")],
      onSet |-> [props |-> "onSetColorDomain"],
      updater |-> "getDimensionScale"] >>]

defaultElevationDimension ==
  [key |-> "elevation",
   updateSteps |-> <<
     [key |-> "getValue",
      triggers |-> [value |-> Trigger("getElevationValue", "getElevationValue"),
                    weight |-> Trigger("getElevationWeight", "getElevationWeight"),
                    aggregation |-> Trigger("elevationAggregation", "")],
      updater |-> "getGetValue"],
     [key |-> "getBins",
      triggers |-> [_filterData |-> Trigger("_filterData", "_filterData")],
      updater |-> "getDimensionSortedBins"],
     [key |-> "getDomain",
      triggers |-> [lowerPercentile |-> Trigger("elevationLowerPercentile", ""),
                    upperPercentile |-> Trigger("elevationUpperPercentile", ""),
                    scaleType |-> Trigger("elevationScaleType", "")],
      updater |-> "getDimensionValueDomain"],
     [key |-> "getScaleFunc",
      triggers |-> [fixed |-> Trigger("elevationFixed", ""),
                    domain |-> Trigger("elevationDomain", ""),
                    range |-> Trigger("elevationRange", ""),
                    scaleType |-> Trigger("elevationScaleType", "")],
      onSet |-> [props |-> "onSetElevationDomain"],
      updater |-> "getDimensionScale"] >>]

\* the dimensions in the order for..in visits this.dimensionUpdaters
defaultDimensions == <<defaultColorDimension, defaultElevationDimension>>

\* new CPUAggregator(): its dimensionUpdaters are the default dimensions
\* and its aggregationUpdater is the default aggregation
NewAggregator == [state |-> [layerData |-> EmptyObject, dimensions |-> EmptyObject]]

dimensionUpdaters == defaultDimensions

aggregationUpdater == defaultAggregation

\* changeFlags.updateTriggersChanged is the set of the triggers it names;
\* false and {} are the empty set
_needUpdateStep(dimensionStep, oldProps, props, changeFlags) ==
  \E name \in DOMAIN dimensionStep.triggers :
    IF dimensionStep.triggers[name].updateTrigger # ""
    THEN \/ "all" \in changeFlags.updateTriggersChanged
         \/ dimensionStep.triggers[name].updateTrigger \in changeFlags.updateTriggersChanged
    ELSE PropOf(oldProps, dimensionStep.triggers[name].prop)
           # PropOf(props, dimensionStep.triggers[name].prop)

\* the updaters of the steps from step on (0-based), bound to their step
_accumulateUpdaters(step, dimension) ==
  [k \in 1..(Len(dimension.updateSteps) - step) |->
     [updater |-> dimension.updateSteps[step + k].updater,
      step |-> dimension.updateSteps[step + k],
      dimension |-> dimension]]

\* findIndex of the first step that needs an update, -1 when none does
needUpdateStepOf(dimension, oldProps, props, changeFlags) ==
  IF \E k \in 1..Len(dimension.updateSteps) :
       _needUpdateStep(dimension.updateSteps[k], oldProps, props, changeFlags)
  THEN Min({k \in 1..Len(dimension.updateSteps) :
              _needUpdateStep(dimension.updateSteps[k], oldProps, props, changeFlags)}) - 1
  ELSE -1

_getAllUpdaters(dimension, oldProps, props, changeFlags) ==
  IF needUpdateStepOf(dimension, oldProps, props, changeFlags) > -1
  THEN _accumulateUpdaters(needUpdateStepOf(dimension, oldProps, props, changeFlags),
                           dimension)
  ELSE <<>>

\* null is the empty list: every caller tests its length or takes || []
_getAggregationChanges(self, oldProps, props, changeFlags) ==
  _getAllUpdaters(aggregationUpdater, oldProps, props, changeFlags)

RECURSIVE dimensionChangesFrom(_, _, _, _, _)
dimensionChangesFrom(dimensions, k, oldProps, props, changeFlags) ==
  IF k > Len(dimensions) THEN <<>>
  ELSE _getAllUpdaters(dimensions[k], oldProps, props, changeFlags)
         \o dimensionChangesFrom(dimensions, k + 1, oldProps, props, changeFlags)

_getDimensionChanges(self, oldProps, props, changeFlags) ==
  dimensionChangesFrom(dimensionUpdaters, 1, oldProps, props, changeFlags)

RECURSIVE allUpdatersFrom(_, _)
allUpdatersFrom(dimensions, k) ==
  IF k > Len(dimensions) THEN <<>>
  ELSE _accumulateUpdaters(0, dimensions[k]) \o allUpdatersFrom(dimensions, k + 1)

\* the updaters updateAllDimensions runs
updateAllDimensions(self) == allUpdatersFrom(dimensionUpdaters, 1)

\* the updaters updateAggregation runs
updateAggregation(self) == _accumulateUpdaters(0, aggregationUpdater)

\* f(): one bound updater
callUpdater(self, bound, props, aggregationParams) ==
  CASE bound.updater = "getAggregatedData" ->
         getAggregatedData(self, bound.step, props, aggregationParams)
    [] bound.updater = "getGetValue" ->
         getGetValue(self, bound.step, props, bound.dimension)
    [] bound.updater = "getDimensionSortedBins" ->
         getDimensionSortedBins(self, bound.step, props, bound.dimension)
    [] bound.updater = "getDimensionValueDomain" ->
         getDimensionValueDomain(self, bound.step, props, bound.dimension)
    [] bound.updater = "getDimensionScale" ->
         getDimensionScale(self, bound.step, props, bound.dimension)

\* a step that was called, by its dimension (or aggregation) and its key
Ran(bound) == <<bound.dimension.key, bound.step.key>>

\* updaters.forEach(f => f()): the calls in order up to the first that
\* throws; ran lists the steps called, the one that threw included
RECURSIVE forEachUpdater(_, _, _, _, _, _, _)
forEachUpdater(self, updaters, k, props, aggregationParams, ran, logged) ==
  IF k > Len(updaters)
  THEN [self |-> self, returned |-> Value("state"), ran |-> ran, logged |-> logged]
  ELSE LET done == callUpdater(self, updaters[k], props, aggregationParams)
       IN  IF done.threw
           THEN [self |-> done.self, returned |-> Throw("TypeError"),
                 ran |-> Append(ran, Ran(updaters[k])), logged |-> logged \o done.logged]
           ELSE forEachUpdater(done.self, updaters, k + 1, props, aggregationParams,
                               Append(ran, Ran(updaters[k])), logged \o done.logged)

\* the updaters updateState runs: the aggregation and every dimension when
\* the data or an aggregation trigger changed, else the changed dimensions
updatersOf(self, oldProps, props, changeFlags) ==
  IF changeFlags.dataChanged
  THEN updateAggregation(self) \o updateAllDimensions(self)
  ELSE IF Len(_getAggregationChanges(self, oldProps, props, changeFlags)) > 0
       THEN _getAggregationChanges(self, oldProps, props, changeFlags)
              \o updateAllDimensions(self)
       ELSE _getDimensionChanges(self, oldProps, props, changeFlags)

updateState(self, opts, aggregationParams) ==
  forEachUpdater(self, updatersOf(self, opts.oldProps, opts.props, opts.changeFlags), 1,
                 opts.props, aggregationParams, <<>>, <<>>)

\* -------------------------------------------------------------------------
\* FileUpload: the files a drop or a file input hands over.  A file is its
\* name; a file name and an extension are sequences of characters.
\* -------------------------------------------------------------------------

\* string.endsWith(suffix)
endsWith(string, suffix) ==
  /\ Len(suffix) <= Len(string)
  /\ SubSeq(string, Len(string) - Len(suffix) + 1, Len(string)) = suffix

\* the positions of the extensions filename ends with
extensionHits(fileExtensions, filename) ==
  {k \in 1..Len(fileExtensions) : endsWith(filename, fileExtensions[k])}

\* _isValidFileType: Boolean(fileExtensions.find(ext => filename.endsWith(ext)))
_isValidFileType(props, filename) ==
  /\ extensionHits(GetOr(props, "fileExtensions", <<>>), filename) # {}
  /\ props.fileExtensions[Min(extensionHits(props.fileExtensions, filename))] # <<>>

\* [...fileList].filter(Boolean)
filterBoolean(fileList) == SelectSeq(fileList, LAMBDA file : file.kind = "value")

\* _handleFileInput with a fault: the extension filter is never disabled
filesToLoadAlwaysFiltered(props, files) ==
  SelectSeq(files, LAMBDA file : _isValidFileType(props, file.value.name))

\* the files _handleFileInput pushes to filesToLoad
filesToLoadOf(props, files) ==
  SelectSeq(files, LAMBDA file : \/ GetOr(props, "disableExtensionFilter", FALSE)
                                 \/ _isValidFileType(props, file.value.name))

\* the names _handleFileInput pushes to errorFiles
errorFilesOf(props, files) ==
  LET rest == SelectSeq(files,
                LAMBDA file : ~(\/ GetOr(props, "disableExtensionFilter", FALSE)
                                \/ _isValidFileType(props, file.value.name)))
  IN  [k \in 1..Len(rest) |-> rest[k].value.name]

\* getDerivedStateFromProps
getDerivedStateFromProps(props, state) ==
  IF state.fileLoading /\ props.fileLoading = FALSE /\ Len(state.files) > 0
  THEN [files |-> <<>>, fileLoading |-> props.fileLoading]
  ELSE [fileLoading |-> props.fileLoading]

\* this.setState(update) and the derived state of the render it causes
setComponentState(self, updateObject) ==
  [self EXCEPT !.state = getDerivedStateFromProps(self.props, updateObject @@ self.state)
                           @@ updateObject @@ self.state]

\* _handleFileInput: the component, and the calls of props.onFileUpload
_handleFileInput(self, fileList) ==
  LET nextState == [files |-> filesToLoadOf(self.props, filterBoolean(fileList)),
                    errorFiles |-> errorFilesOf(self.props, filterBoolean(fileList)),
                    dragOver |-> FALSE]
  IN  [self |-> setComponentState(self, nextState),
       called |-> IF Len(nextState.files) > 0
                  THEN <<[onFileUpload |-> nextState.files]>>
                  ELSE <<>>]

_toggleDragState(self, newState) == setComponentState(self, [dragOver |-> newState])

\* a FileUpload as constructed, before it is given its props
NewFileUpload ==
  [props |-> [fileLoading |-> FALSE],
   state |-> [dragOver |-> FALSE, fileLoading |-> FALSE, files |-> <<>>,
              errorFiles |-> <<>>]]

\* -------------------------------------------------------------------------
\* CustomInput: the text committed for the value, or for a bound of the
\* range, of a slider.  A number is Num(n), a text is Str of its characters.
\* -------------------------------------------------------------------------

Num(n) == [typeof |-> "number", number |-> n]

Str(text) == [typeof |-> "string", string |-> text]

NaN == [typeof |-> "number", nan |-> TRUE]

isNaN(number) == Has(number, "nan")

digitOf(char) ==
  CASE char = "0" -> 0 [] char = "1" -> 1 [] char = "2" -> 2 [] char = "3" -> 3
    [] OTHER -> -1

\* the number the digits of text write
RECURSIVE numberOfDigits(_, _, _)
numberOfDigits(text, k, number) ==
  IF k > Len(text) THEN number
  ELSE numberOfDigits(text, k + 1, number * 10 + digitOf(text[k]))

\* Number(v) of a text of digits and letters: 0 for the empty text, NaN when
\* a character is no digit
Number(v) ==
  IF \E k \in 1..Len(v) : digitOf(v[k]) < 0 THEN NaN
  ELSE Num(numberOfDigits(v, 1, 0))

\* typeof prevValue === 'number' ? (isNaN(valueAsNumber) ? prevValue : valueAsNumber) : v
convertedValueOf(prevValue, valueAsNumber, v) ==
  IF prevValue.typeof = "number"
  THEN IF isNaN(valueAsNumber) THEN prevValue ELSE valueAsNumber
  ELSE Str(v)

\* isRanged ? (name === 'value1' ? value[0] : value[1]) : value
prevValueOf(props, name) ==
  IF props.isRanged
  THEN IF name = "value1" THEN props.value[1] ELSE props.value[2]
  ELSE props.value

\* onChangeInput: what onChangeCustomInput is called with
onChangeInput(props, name, v) ==
  IF props.isRanged
  THEN IF name = "value0"
       THEN <<convertedValueOf(prevValueOf(props, name), Number(v), v), props.value[2]>>
       ELSE <<props.value[1], convertedValueOf(prevValueOf(props, name), Number(v), v)>>
  ELSE convertedValueOf(prevValueOf(props, name), Number(v), v)

\* the CustomInput of a slider as first rendered
NewCustomInput == [isRanged |-> TRUE, value |-> <<Num(0), Num(1)>>]

\* -------------------------------------------------------------------------
\* call: the last call made on the table, what it was given (filters,
\* layers, options, payload, column), what it did (row scans, the caller's
\* lists as it left them, what it returned and logged, the dataset object
\* pinTableColumns was given as the call left it), whether it repeats
\* the call before it, and whether it comes right after filterTable(filters,
\* layers) with the same lists and no options
Observed(op, filters, layers, opt, res) ==
  [op |-> op, filters |-> filters, layers |-> layers, opt |-> opt,
   scans |-> res.scans, filtersAfter |-> res.filters, layersAfter |-> res.layers,
   data |-> EmptyObject,
   column |-> <<>>, rowIdx |-> 0, mode |-> "", returned |-> Value("dataset"),
   logged |-> <<>>, domainScans |-> 0, original |-> Undefined,
   ran |-> <<>>, called |-> <<>>,
   repeat |-> call.op = op /\ call.filters = filters /\ call.layers = layers
              /\ call.opt = opt,
   afterFilterTable |-> call.op = "filterTable" /\ call.filters = filters
                        /\ call.layers = layers /\ call.opt = NoOpt]

NoCall(op) ==
  [op |-> op, filters |-> <<>>, layers |-> <<>>, opt |-> NoOpt, scans |-> 0,
   filtersAfter |-> <<>>, layersAfter |-> <<>>,
   data |-> EmptyObject,
   column |-> <<>>, rowIdx |-> 0, mode |-> "", returned |-> Undefined,
   logged |-> <<>>, domainScans |-> 0, original |-> Undefined,
   ran |-> <<>>, called |-> <<>>,
   repeat |-> FALSE, afterFilterTable |-> FALSE]

\* a call on a column: the column, row and mode it was given, what it
\* answered, and whether it repeats the call before it
ColumnCall(op, column, rowIdx, mode, res) ==
  [NoCall(op) EXCEPT !.column = column, !.rowIdx = rowIdx, !.mode = mode,
                     !.returned = res.returned, !.logged = res.logged,
                     !.domainScans = res.domainScans,
                     !.repeat = call.op = op /\ call.column = column
                                  /\ call.rowIdx = rowIdx /\ call.mode = mode]

Init ==
  /\ table = NewTable
  /\ call = NoCall("new")
  /\ aggregator = NewAggregator
  /\ layer = [props |-> EmptyObject]
  /\ fileUpload = NewFileUpload
  /\ customInput = NewCustomInput

ImportData ==
  \E data \in Payloads :
    /\ UNCHANGED components
    /\ table' = importData(table, data)
    /\ call' = [NoCall("importData") EXCEPT !.data = data]

Update ==
  /\ Len(table.fields) > 0
  /\ numRows(table.dataContainer) < MaxRows
  /\ UNCHANGED components
  /\ table' = update(table, UpdatePayload(table.dataContainer))
  /\ call' = NoCall("update")

CallFilterTable(lists, layerLists, opts) ==
  \E filters \in lists, layers \in layerLists, opt \in opts :
    LET res == filterTable(table, filters, layers, opt)
    IN  /\ UNCHANGED components
        /\ table' = res.table
        /\ call' = Observed("filterTable", filters, layers, opt, res)

CallFilterTableCPU(lists, layerLists) ==
  \E filters \in lists, layers \in layerLists :
    LET res == filterTableCPU(table, filters, layers)
    IN  /\ UNCHANGED components
        /\ table' = res.table
        /\ call' = Observed("filterTableCPU", filters, layers, CpuOpt, res)

FilterTable == CallFilterTable(FilterLists, {Layers1}, {NoOpt})

FilterTableCPU == CallFilterTableCPU(FilterLists, {Layers1})

Next == ImportData \/ Update \/ FilterTable \/ FilterTableCPU

Spec == Init /\ [][Next]_vars

\* One import, then filterTable calls only, with one layer list: the data
\* and the layers of the table do not change between the filterTable calls
ImportOnce ==
  /\ call.op = "new"
  /\ ImportData

FilterImported ==
  /\ call.op # "new"
  /\ CallFilterTable(WideFilterLists, {Layers1}, Opts)

NextFilter == ImportOnce \/ FilterImported

SpecFilter == Init /\ [][NextFilter]_vars

\* One import, then filterTable and filterTableCPU calls in any order: the
\* data of the table does not change between the calls
FilterAfterImport ==
  /\ call.op # "new"
  /\ FilterTable

FilterCPUAfterImport ==
  /\ call.op # "new"
  /\ FilterTableCPU

NextCalls == ImportOnce \/ FilterAfterImport \/ FilterCPUAfterImport

SpecCalls == Init /\ [][NextCalls]_vars

\* One import, then update, filterTable and filterTableCPU calls in any
\* order: rows are appended to the data the table was imported with
NextAppend == ImportOnce \/ Update \/ FilterAfterImport \/ FilterCPUAfterImport

SpecAppend == Init /\ [][NextAppend]_vars

\* The calls on columns.  A column the table has, or the unknown "zz".
Columns == {Lat, Lng, <<"z", "z">>}

\* mode of sortDatasetByColumn; "" for a call without mode
Modes == {"ASCENDING", "DESCENDING", "UNSORT", ""}

GetColumnField ==
  \E column \in Columns :
    LET res == getColumnField(table, column)
    IN  /\ UNCHANGED components
        /\ table' = res.table
        /\ call' = ColumnCall("getColumnField", column, 0, "", res)

GetColumnFieldIdx ==
  \E column \in Columns :
    LET res == getColumnFieldIdx(table, column)
    IN  /\ UNCHANGED components
        /\ table' = res.table
        /\ call' = ColumnCall("getColumnFieldIdx", column, 0, "", res)

GetColumnDisplayFormat ==
  \E column \in Columns :
    LET res == getColumnDisplayFormat(table, column)
    IN  /\ UNCHANGED components
        /\ table' = res.table
        /\ call' = ColumnCall("getColumnDisplayFormat", column, 0, "", res)

GetValue ==
  \E column \in Columns, rowIdx \in Range(table.allIndexes) :
    LET res == getValue(table, column, rowIdx)
    IN  /\ UNCHANGED components
        /\ table' = res.table
        /\ call' = ColumnCall("getValue", column, rowIdx, "", res)

CallGetColumnFilterProps(columns) ==
  \E column \in columns :
    LET res == getColumnFilterProps(table, column)
    IN  /\ UNCHANGED components
        /\ table' = res.table
        /\ call' = ColumnCall("getColumnFilterProps", column, 0, "", res)

GetColumnFilterProps == CallGetColumnFilterProps(Columns)

CallSortDatasetByColumn(columns, modes) ==
  \E column \in columns, mode \in modes :
    LET res == sortDatasetByColumn(table, column, mode)
    IN  /\ UNCHANGED components
        /\ table' = res.table
        /\ call' = ColumnCall("sortDatasetByColumn", column, 0, mode, res)

\* the caller goes on with the table pinTableColumns returned
CallPinTableColumns(columns) ==
  \E column \in columns :
    LET res == pinTableColumns(table, column)
    IN  /\ UNCHANGED components
        /\ table' = res.table
        /\ call' = [ColumnCall("pinTableColumns", column, 0, "", res) EXCEPT
                      !.original = Value(res.original)]

\* One import, then reads of columns and of their filter props, and updates
ReadImported ==
  /\ call.op # "new"
  /\ \/ GetColumnField
     \/ GetColumnFieldIdx
     \/ GetColumnDisplayFormat
     \/ GetValue
     \/ GetColumnFilterProps

NextColumns == ImportOnce \/ Update \/ ReadImported

SpecColumns == Init /\ [][NextColumns]_vars

\* One import, then every call that works on the table, in any order, on
\* one column each
TableFilterLists == {<<>>, <<F1gpu>>}

UseImported ==
  /\ call.op # "new"
  /\ \/ CallFilterTable(TableFilterLists, {Layers1}, {NoOpt})
     \/ CallFilterTableCPU(TableFilterLists, {Layers1})
     \/ CallGetColumnFilterProps({Lng})
     \/ CallSortDatasetByColumn({Lat}, {"DESCENDING", "UNSORT"})
     \/ CallPinTableColumns({Lng})

NextTable == ImportOnce \/ Update \/ UseImported

SpecTable == Init /\ [][NextTable]_vars

\* Sorting: one import of data with null cells (a cell of 0 is null) and
\* with equal cells, then updates, sorts of any column in any mode, and
\* filterTable calls
NullPayloads ==
  { [fields |-> ImportFields, rows |-> << <<2, 1>>, <<0, 2>>, <<1, 0>> >>],
    [fields |-> ImportFields, cols |-> << <<0, 1, 1>>, <<1, 0, 2>> >>] }

ImportNulls ==
  /\ call.op = "new"
  /\ \E data \in NullPayloads :
       /\ UNCHANGED components
       /\ table' = importData(table, data)
       /\ call' = [NoCall("importData") EXCEPT !.data = data]

SortFilterLists == {<<>>, <<F1cpu>>}

SortImported ==
  /\ call.op # "new"
  /\ \/ CallSortDatasetByColumn(Columns, Modes)
     \/ CallFilterTable(SortFilterLists, {Layers1}, {NoOpt})

NextSort == ImportNulls \/ Update \/ SortImported

SpecSort == Init /\ [][NextSort]_vars

\* Pinning: one import, then pins of any column, with updates and sorts in
\* between
PinImported ==
  /\ call.op # "new"
  /\ \/ CallPinTableColumns(Columns)
     \/ CallSortDatasetByColumn({Lat}, {"DESCENDING"})

NextPin == ImportOnce \/ Update \/ PinImported

SpecPin == Init /\ [][NextPin]_vars

\* Scales: one import of data with null cells, then updates, filterTable
\* calls, layer domains of any field for any scale type, and scale functions
\* for any scale type
LayerScaleTypes ==
  {"ordinal", "quantile", "quantize", "linear", "sqrt", "log", "point",
   "custom", "customOrdinal", "bogus"}

FunctorScaleTypes ==
  {Undefined, Value("")}
    \cup {Value(t) : t \in {"linear", "quantize", "quantile", "ordinal", "sqrt",
                            "log", "point", "bogus"}}

GetColumnLayerDomain ==
  \E k \in 1..Len(table.fields), scaleType \in LayerScaleTypes :
    LET res == getColumnLayerDomain(table, table.fields[k], scaleType)
    IN  /\ UNCHANGED components
        /\ table' = res.table
        /\ call' = [ColumnCall("getColumnLayerDomain", table.fields[k].name, 0, "", res)
                      EXCEPT !.data = [scaleType |-> scaleType]]

GetScaleFunctor ==
  \E scaleType \in FunctorScaleTypes :
    /\ call' = [NoCall("getScaleFunctor") EXCEPT
                  !.data = [scaleType |-> scaleType],
                  !.returned = getScaleFunctor(scaleType).returned,
                  !.logged = getScaleFunctor(scaleType).logged]
    /\ UNCHANGED <<table, components>>

DomainImported ==
  /\ call.op # "new"
  /\ \/ GetColumnLayerDomain
     \/ GetScaleFunctor
     \/ CallFilterTable(SortFilterLists, {Layers1}, {NoOpt})

NextDomain == ImportNulls \/ Update \/ DomainImported

SpecDomain == Init /\ [][NextDomain]_vars

\* Layers: one import, then updates and filterTable calls whose layers
\* change from call to call, with a polygon filter, which tests the column
\* each layer is drawn by
LayerFilterLists == ListsOf({F1cpu}, {F2polygon})

FilterLayers ==
  /\ call.op # "new"
  /\ CallFilterTable(LayerFilterLists, LayerLists, {NoOpt})

NextLayers == ImportOnce \/ Update \/ FilterLayers

SpecLayers == Init /\ [][NextLayers]_vars

\* findPointFieldPairs on its own: the field names it is given
One == <<"o", "n", "e">>
Underscore == <<"_">>
OneLat == One \o Underscore \o Lat
OneLng == One \o Underscore \o Lng
OneLate == OneLat \o <<"e">>
OneLnge == OneLng \o <<"e">>
OneAlt == One \o Underscore \o ALTITUDE_FIELDS[1]
OneAltitude == One \o Underscore \o ALTITUDE_FIELDS[2]
MixedOneLat == <<"O", "n", "e", "_", "L", "a", "t">>
Lon == TRIP_POINT_FIELDS[2][2]
LatLat == Lat \o Underscore \o Lat
LngLat == Lng \o Underscore \o Lat
LngLng == Lng \o Underscore \o Lng

NamePool ==
  {OneLat, OneLng, OneLate, OneLnge, OneAlt, OneAltitude, MixedOneLat,
   Lat, Lng, Lon, LatLat, LngLat, LngLng}

\* the lists of n distinct names of a pool
ListsOfNames(pool, n) ==
  {names \in [1..n -> pool] : \A i, j \in 1..n : names[i] = names[j] => i = j}

\* a point with both altitude columns, in every order
AltitudeLists ==
  ListsOfNames({OneLat, OneLng, OneAlt, OneAltitude},
               Cardinality({OneLat, OneLng, OneAlt, OneAltitude}))

\* names whose label needs trimming, or whose token has a separator on each
\* side
BlankLat == <<"x", " ", "_">> \o Lat
BlankLng == <<"x", " ", "_">> \o Lng
MidLat == <<"a", ".">> \o Lat \o <<".", "b">>
MidLng == <<"a", ".">> \o Lng \o <<".", "b">>

LabelLists == ListsOfNames({BlankLat, BlankLng, MidLat, MidLng}, 2)

NameLists ==
  UNION {ListsOfNames(NamePool, n) : n \in 0..MaxFields}
    \cup AltitudeLists \cup LabelLists

FindPointFieldPairs ==
  /\ call.op = "new"
  /\ \E names \in NameLists :
       LET fields == [i \in 1..Len(names) |-> Field(names[i])]
       IN  /\ call' = [NoCall("findPointFieldPairs") EXCEPT
                         !.data = [fields |-> fields],
                         !.returned = Value(findPointFieldPairs(fields))]
           /\ UNCHANGED <<table, components>>

NextPairs == FindPointFieldPairs

SpecPairs == Init /\ [][NextPairs]_vars

\* -------------------------------------------------------------------------
\* The aggregator of a layer: updateState with the props the layer had and
\* the props it has now, and getValueFunc on its own
\* -------------------------------------------------------------------------

\* props that give every trigger a value; getColorValue is null, so that
\* the color value is built by getValueFunc
BaseProps ==
  [data |-> Value(1), cellSize |-> Value(1), getPosition |-> Function("getPosition"),
   gridAggregator |-> Function("gridAggregator"),
   getColorValue |-> Null, getColorWeight |-> Function("getColorWeight"),
   colorAggregation |-> Value(Sum), lowerPercentile |-> Value(0),
   upperPercentile |-> Value(100), colorScaleType |-> Value("quantize"),
   colorDomain |-> Null, colorRange |-> Value(1),
   onSetColorDomain |-> Function("onSetColorDomain"),
   getElevationValue |-> Function("getElevationValue"),
   getElevationWeight |-> Function("getElevationWeight"),
   elevationAggregation |-> Value(Sum), elevationLowerPercentile |-> Value(0),
   elevationUpperPercentile |-> Value(100), elevationScaleType |-> Value("linear"),
   elevationFixed |-> Bool(FALSE), elevationDomain |-> Null,
   elevationRange |-> Value(2)]

\* BaseProps, and BaseProps with one prop changed or left out
PropsPool ==
  { BaseProps,
    [BaseProps EXCEPT !.colorAggregation = Undefined],
    [BaseProps EXCEPT !.getColorValue = Undefined],
    [BaseProps EXCEPT !.lowerPercentile = Value(10)],
    [BaseProps EXCEPT !.elevationRange = Value(3)],
    [BaseProps EXCEPT !.cellSize = Value(2)],
    [BaseProps EXCEPT !.gridAggregator = Function("hexagonAggregator")],
    [BaseProps EXCEPT !.colorScaleType = Value("custom")]
      @@ [colorMap |-> Value(<< <<Value(1), "red">>, <<Null, "green">>,
                                <<Value(2), "blue">> >>)] }

ChangeFlagsPool ==
  { [dataChanged |-> TRUE, updateTriggersChanged |-> {}],
    [dataChanged |-> FALSE, updateTriggersChanged |-> {}],
    [dataChanged |-> FALSE, updateTriggersChanged |-> {"all"}],
    [dataChanged |-> FALSE, updateTriggersChanged |-> {"getElevationWeight"}],
    [dataChanged |-> FALSE, updateTriggersChanged |-> {"_filterData"}],
    [dataChanged |-> FALSE, updateTriggersChanged |-> {"getPosition"}] }

\* updateState(opts, aggregationParams); oldProps are the props of the
\* call before, as the layer that owns the aggregator hands them over
UpdateState ==
  \E props \in PropsPool, changeFlags \in ChangeFlagsPool :
    \E opts \in {[oldProps |-> layer.props, props |-> props,
                  changeFlags |-> changeFlags]} :
      \E res \in {updateState(aggregator, opts, "aggregationParams")} :
        /\ aggregator' = res.self
        /\ layer' = [layer EXCEPT !.props = props]
        /\ call' = [NoCall("updateState") EXCEPT !.data = opts,
                      !.returned = res.returned, !.ran = res.ran,
                      !.logged = res.logged]
        /\ UNCHANGED <<table, fileUpload, customInput>>

AggregationPool ==
  {Undefined, Null, Value(<<>>), Value(Sum), Value(<<"s", "u", "m">>),
   Value(<<"m", "e", "a", "n">>), Value(<<"M", "i", "n">>), Value(<<"m", "a", "x">>),
   Value(<<"m", "e", "d", "i", "a", "n">>)}

GetValueFunc ==
  \E aggregation \in AggregationPool,
     accessor \in {Function("getColorWeight"), Function("getElevationWeight")} :
    /\ call' = [NoCall("getValueFunc") EXCEPT
                  !.data = [aggregation |-> aggregation, accessor |-> accessor],
                  !.returned = getValueFunc(aggregation, accessor).returned,
                  !.logged = getValueFunc(aggregation, accessor).logged]
    /\ UNCHANGED <<table, aggregator, layer, fileUpload, customInput>>

NextAggregator == UpdateState \/ GetValueFunc

SpecAggregator == Init /\ [][NextAggregator]_vars

\* -------------------------------------------------------------------------
\* The file upload: renders with new props, drag state changes and file
\* lists handed over
\* -------------------------------------------------------------------------

\* a file list holds at most this many entries
MaxFiles == 2

Csv == <<"c", "s", "v">>

Json == <<"j", "s", "o", "n">>

File(name) == Value([name |-> name])

\* files named with one extension, with another and with an extension in
\* the middle, a name that is an extension and nothing else, and an entry
\* that is no file
FilePool ==
  {File(<<"a", ".">> \o Csv), File(<<"b", ".">> \o Json),
   File(Csv \o <<".", "g", "z">>), File(Csv), Null}

FileLists == UNION {[1..n -> FilePool] : n \in 0..MaxFiles}

UploadPropsPool ==
  {extensions @@ filter @@ [fileLoading |-> fileLoading] :
     extensions \in {EmptyObject, [fileExtensions |-> <<Csv>>],
                     [fileExtensions |-> <<Json, Csv>>]},
     filter \in {EmptyObject, [disableExtensionFilter |-> FALSE],
                 [disableExtensionFilter |-> TRUE]},
     fileLoading \in BOOLEAN}

RenderFileUpload ==
  \E props \in UploadPropsPool :
    /\ fileUpload' = [props |-> props,
                      state |-> getDerivedStateFromProps(props, fileUpload.state)
                                  @@ fileUpload.state]
    /\ call' = [NoCall("render") EXCEPT !.data = [props |-> props]]
    /\ UNCHANGED <<table, aggregator, layer, customInput>>

HandleFileInput ==
  \E fileList \in FileLists :
    LET res == _handleFileInput(fileUpload, fileList)
    IN  /\ fileUpload' = res.self
        /\ call' = [NoCall("_handleFileInput") EXCEPT
                      !.data = [fileList |-> fileList, props |-> fileUpload.props],
                      !.called = res.called]
        /\ UNCHANGED <<table, aggregator, layer, customInput>>

ToggleDragState ==
  \E newState \in BOOLEAN :
    /\ fileUpload' = _toggleDragState(fileUpload, newState)
    /\ call' = [NoCall("_toggleDragState") EXCEPT !.data = [newState |-> newState]]
    /\ UNCHANGED <<table, aggregator, layer, customInput>>

NextUpload == RenderFileUpload \/ HandleFileInput \/ ToggleDragState

SpecUpload == Init /\ [][NextUpload]_vars

\* -------------------------------------------------------------------------
\* The custom input of a slider: renders with a value of the layer's
\* configuration, and texts committed for the value or a bound; the value
\* onChangeCustomInput is called with is the value of the next render
\* -------------------------------------------------------------------------

\* a committed text holds at most this many characters
MaxText == 2

Texts == UNION {[1..n -> {"1", "3", "a"}] : n \in 0..MaxText}

\* ranges of numbers and of texts
RangedPropsPool ==
  { [isRanged |-> TRUE, value |-> <<Num(0), Num(1)>>],
    [isRanged |-> TRUE, value |-> <<Num(3), Num(3)>>],
    [isRanged |-> TRUE, value |-> <<Str(<<"1">>), Str(<<"3">>)>>] }

\* a number and a text
SinglePropsPool ==
  { [isRanged |-> FALSE, value |-> Num(1)],
    [isRanged |-> FALSE, value |-> Str(<<"a">>)] }

Render(props) ==
  /\ customInput' = props
  /\ call' = [NoCall("CustomInput") EXCEPT !.data = [props |-> props]]
  /\ UNCHANGED <<table, aggregator, layer, fileUpload>>

RenderCustomInput ==
  \/ \E props \in RangedPropsPool : Render(props)
  \/ \E props \in SinglePropsPool : Render(props)

OnChangeInput ==
  \E name \in (IF customInput.isRanged THEN {"value0", "value1"} ELSE {"value"}),
     v \in Texts :
    /\ customInput' = [customInput EXCEPT !.value = onChangeInput(customInput, name, v)]
    /\ call' = [NoCall("onChangeInput") EXCEPT
                  !.data = [props |-> customInput, name |-> name, v |-> v],
                  !.called = <<[onChangeCustomInput |->
                                  onChangeInput(customInput, name, v)]>>]
    /\ UNCHANGED <<table, aggregator, layer, fileUpload>>

NextInput == RenderCustomInput \/ OnChangeInput

SpecInput == Init /\ [][NextInput]_vars

\* -------------------------------------------------------------------------
\* What the claims speak of
\* -------------------------------------------------------------------------

HasGpu(filters) == \E k \in 1..Len(filters) : filters[k].gpu

\* the filters of a list that target this dataset
Applicable(filters) == SelectSeq(filters, LAMBDA f : AppliesTo(DataId, f))

\* the rows of allIndexes that pass the predicate of every filter of the list
RowsPassing(tbl, filterList, layers) ==
  {i \in Range(tbl.allIndexes) :
     \A k \in 1..Len(filterList) :
       getFilterFunction(FieldOfFilter(tbl, filterList[k]), tbl.id, filterList[k],
                         layers, tbl.dataContainer)[i]}

StrictlyAscending(index) == \A k \in 1..(Len(index) - 1) : index[k] < index[k + 1]

\* index lists exactly these rows, each once, in row order
IsExactly(index, rows) == Range(index) = rows /\ StrictlyAscending(index)

\* a property of an object, undefined included
Prop(obj, key) == IF Has(obj, key) THEN <<obj[key]>> ELSE <<>>

\* C1: filterTable called with an empty filter list leaves filteredIndex and
\* filteredIndexForDomain equal to allIndexes, whatever was applied before.
Thm_C1 ==
  (call.op = "filterTable" /\ call.filters = <<>>)
    => /\ table.filteredIndex = table.allIndexes
       /\ table.filteredIndexForDomain = table.allIndexes

\* an empty-list call on a table with rows that had a filter applied before
Wit_C1 ==
  /\ call.op = "filterTable" /\ call.filters = <<>>
  /\ Len(table.allIndexes) > 0
  /\ \E id \in DOMAIN table.changedFilters.dynamicDomain :
       table.changedFilters.dynamicDomain[id] = "deleted"

\* C2: with data and layers fixed, after a filterTable call with a non-empty
\* list filteredIndex is exactly the rows passing every filter of the new cpu
\* bucket and filteredIndexForDomain exactly the rows passing every filter of
\* the new dynamicDomain bucket.
Thm_C2 ==
  (call.op = "filterTable" /\ call.filters # <<>>)
    => /\ IsExactly(table.filteredIndex,
                    RowsPassing(table, table.filterRecord.cpu, call.layers))
       /\ IsExactly(table.filteredIndexForDomain,
                    RowsPassing(table, table.filterRecord.dynamicDomain, call.layers))

\* a call that skipped the scan although its list differs from the previous
\* one, with the two index views filtered differently
Wit_C2 ==
  /\ call.op = "filterTable" /\ call.filters # <<>>
  /\ call.scans = 0 /\ ~call.repeat
  /\ table.filteredIndex # table.allIndexes
  /\ table.filteredIndexForDomain # table.filteredIndex

\* C3: after any sequence of importData, update, filterTable and
\* filterTableCPU calls, filteredIndex and filteredIndexForDomain hold only
\* elements of allIndexes, strictly ascending (so without duplicates).
Thm_C3 ==
  /\ Range(table.filteredIndex) \subseteq Range(table.allIndexes)
  /\ StrictlyAscending(table.filteredIndex)
  /\ Range(table.filteredIndexForDomain) \subseteq Range(table.allIndexes)
  /\ StrictlyAscending(table.filteredIndexForDomain)

\* a filtered table that has been updated and then filtered on the CPU
Wit_C3 ==
  /\ call.op = "filterTableCPU"
  /\ Len(table.allIndexes) > 2
  /\ Len(table.filteredIndex) \in 1..(Len(table.allIndexes) - 1)
  /\ Len(table.filteredIndexForDomain) \in 1..(Len(table.allIndexes) - 1)

\* C4: a filterTable call that repeats the previous filterTable call (same
\* filters, layers and options) leaves filteredIndex and
\* filteredIndexForDomain as the first call left them and scans no row.
Thm_C4 ==
  [][(call'.op = "filterTable" /\ call'.repeat)
       => /\ table'.filteredIndex = table.filteredIndex
          /\ table'.filteredIndexForDomain = table.filteredIndexForDomain
          /\ call'.scans = 0
          /\ ~BucketChanged(table'.changedFilters, "dynamicDomain")
          /\ ~BucketChanged(table'.changedFilters, "cpu")]_vars

\* a repeated call with filters that remove rows
Wit_C4 ==
  /\ call.op = "filterTable" /\ call.repeat /\ call.filters # <<>>
  /\ table.filteredIndex # table.allIndexes

\* C5: filterTableCPU with at least one gpu:true filter changes no property
\* of the table but filteredIdxCPU and filterRecordCPU.
Thm_C5 ==
  [][(call'.op = "filterTableCPU" /\ HasGpu(call'.filters))
       => \A key \in (DOMAIN table \cup DOMAIN table')
                       \ {"filteredIdxCPU", "filterRecordCPU"} :
            Prop(table', key) = Prop(table, key)]_vars

\* a CPU filtering that scanned the rows and whose index and record differ
\* from the live ones
Wit_C5 ==
  /\ call.op = "filterTableCPU" /\ HasGpu(call.filters) /\ call.scans = 1
  /\ Has(table, "filterRecord")
  /\ table.filterRecordCPU # table.filterRecord
  /\ table.filteredIdxCPU # table.filteredIndex

\* C6: after filterTableCPU with at least one gpu:true filter in the list,
\* filteredIdxCPU is exactly the rows passing every filter of the list that
\* applies to this dataset, on the first such call and after any earlier
\* filterTable and filterTableCPU calls.
Cex_C6 ==
  (call.op = "filterTableCPU" /\ HasGpu(call.filters))
    => IsExactly(table.filteredIdxCPU,
                 RowsPassing(table, Applicable(call.filters), call.layers))

\* C7: filterTableCPU(F, L) right after filterTable(F, L), F non-empty with
\* no gpu:true filter, sets filteredIdxCPU to filteredIndex without a scan,
\* and that list is the rows passing every filter of F that applies.
Cex_C7 ==
  (/\ call.op = "filterTableCPU" /\ call.afterFilterTable
   /\ call.filters # <<>> /\ ~HasGpu(call.filters))
    => /\ table.filteredIdxCPU = table.filteredIndex
       /\ call.scans = 0
       /\ IsExactly(table.filteredIdxCPU,
                    RowsPassing(table, Applicable(call.filters), call.layers))

\* C8: every filterTable call leaves filterRecord equal to the
\* classification of the call's own filter list and gpuFilter equal to the
\* descriptor of the call's own filter list.
Thm_C8 ==
  call.op = "filterTable"
    => /\ Prop(table, "filterRecord")
            = <<getFilterRecord(table.id, call.filters, call.opt)>>
       /\ table.gpuFilter
            = getGpuFilterProps(call.filters, table.id, table.fields, EmptyObject)

\* a call that skipped the scan, with a GPU filter in a list that differs
\* from the list of the call before
Wit_C8 ==
  /\ call.op = "filterTable" /\ call.scans = 0 /\ ~call.repeat
  /\ Len(table.gpuFilter.filterRange) > 0

\* C9: a filterTable call with a non-empty list that finds a change only in
\* the cpu bucket keeps filteredIndexForDomain, one that finds a change only
\* in the dynamicDomain bucket keeps filteredIndex, one that finds neither
\* keeps both.
Thm_C9 ==
  [][(call'.op = "filterTable" /\ call'.filters # <<>>)
       => LET cpu == BucketChanged(table'.changedFilters, "cpu")
              domain == BucketChanged(table'.changedFilters, "dynamicDomain")
          IN  /\ (cpu /\ ~domain)
                   => table'.filteredIndexForDomain = table.filteredIndexForDomain
              /\ (domain /\ ~cpu) => table'.filteredIndex = table.filteredIndex
              /\ (~cpu /\ ~domain)
                   => /\ table'.filteredIndex = table.filteredIndex
                      /\ table'.filteredIndexForDomain = table.filteredIndexForDomain]_vars

\* a change in the cpu bucket only, with a domain index that a recomputation
\* would have changed
Wit_C9 ==
  /\ call.op = "filterTable" /\ call.filters # <<>>
  /\ BucketChanged(table.changedFilters, "cpu")
  /\ ~BucketChanged(table.changedFilters, "dynamicDomain")
  /\ ~IsExactly(table.filteredIndexForDomain,
                RowsPassing(table, table.filterRecord.dynamicDomain, call.layers))

\* C10: filterTable and filterTableCPU leave the filter list, its filter
\* objects and the layer list as the caller passed them.
Thm_C10 ==
  call.op \in {"filterTable", "filterTableCPU"}
    => /\ call.filtersAfter = call.filters
       /\ call.layersAfter = call.layers

\* a CPU filtering of a list with a GPU filter that scanned the rows
Wit_C10 ==
  /\ call.op = "filterTableCPU" /\ HasGpu(call.filters) /\ call.scans = 1
  /\ Len(table.filteredIdxCPU) < Len(table.allIndexes)

\* a filter of this dataset that names a field the table does not have
MissingField(tbl, f) ==
  /\ AppliesTo(tbl.id, f)
  /\ f.type # "polygon"
  /\ \A i \in 1..Len(tbl.fields) : tbl.fields[i].name # f.name

\* the filters of a bucket whose field the table has
WithField(tbl, filterList) ==
  SelectSeq(filterList, LAMBDA f : ~MissingField(tbl, f))

\* C11: when a filter of the list names a field absent from the dataset,
\* filterTable completes and that filter removes no row: filteredIndex and
\* filteredIndexForDomain are exactly the rows passing the other filters of
\* their bucket.
Thm_C11 ==
  (/\ call.op = "filterTable"
   /\ \E k \in 1..Len(call.filters) : MissingField(table, call.filters[k]))
    => /\ IsExactly(table.filteredIndex,
                    RowsPassing(table, WithField(table, table.filterRecord.cpu),
                                call.layers))
       /\ IsExactly(table.filteredIndexForDomain,
                    RowsPassing(table,
                                WithField(table, table.filterRecord.dynamicDomain),
                                call.layers))

\* a scan with a filter on the unknown field next to a filter that removes a
\* row: the unknown field is in the cpu bucket and the index is not all rows
Wit_C11 ==
  /\ call.op = "filterTable" /\ call.scans = 1
  /\ \E k \in 1..Len(table.filterRecord.cpu) :
       MissingField(table, table.filterRecord.cpu[k])
  /\ Len(table.filteredIndex) > 0
  /\ table.filteredIndex # table.allIndexes

\* the table has no field of this name
AbsentColumn(tbl, column) ==
  \A i \in 1..Len(tbl.fields) : tbl.fields[i].name # column

\* what an accessor answers for a column the table does not have
AnswersAbsent(op, returned) ==
  CASE op = "getColumnField" -> returned.kind = "undefined"
    [] op = "getColumnFieldIdx" -> returned.kind = "value" /\ returned.value = -1
    [] op = "getValue" -> returned.kind = "null"
    [] op = "getColumnDisplayFormat" -> returned.kind = "undefined"
    [] op = "getColumnFilterProps" -> returned.kind = "null"

Accessors ==
  {"getColumnField", "getColumnFieldIdx", "getValue", "getColumnDisplayFormat",
   "getColumnFilterProps"}

\* C12: getColumnField, getColumnFieldIdx, getValue, getColumnDisplayFormat
\* and getColumnFilterProps called with a column name absent from the table
\* return undefined, -1, null, undefined and null, log the condition once,
\* and leave the table as it was.
Thm_C12 ==
  [][(call'.op \in Accessors /\ AbsentColumn(table, call'.column))
       => /\ AnswersAbsent(call'.op, call'.returned)
          /\ call'.logged = <<[fieldName |-> call'.column, dataset |-> table.id]>>
          /\ table' = table]_vars

\* the filter props of the unknown column asked of a table that holds the
\* filter props of one of its columns
Wit_C12 ==
  /\ call.op = "getColumnFilterProps"
  /\ AbsentColumn(table, call.column)
  /\ call.returned.kind = "null"
  /\ \E i \in 1..Len(table.fields) : Has(table.fields[i], "filterProps")

\* C13: update keeps the container and the position of every row it held,
\* sets allIndexes to 0..N-1 for the new row count, and leaves fields,
\* filterRecord, filterRecordCPU, changedFilters and gpuFilter unchanged.
Thm_C13 ==
  [][call'.op = "update"
       => /\ table'.dataContainer.format = table.dataContainer.format
          /\ numRows(table'.dataContainer) >= numRows(table.dataContainer)
          /\ \A i \in 0..(numRows(table.dataContainer) - 1) :
               \A f \in 0..(Len(table.fields) - 1) :
                 valueAt(table'.dataContainer, i, f) = valueAt(table.dataContainer, i, f)
          /\ table'.allIndexes
               = [i \in 1..numRows(table'.dataContainer) |-> i - 1]
          /\ \A key \in {"fields", "filterRecord", "filterRecordCPU",
                         "changedFilters", "gpuFilter"} :
               Prop(table', key) = Prop(table, key)]_vars

\* an update of a table that holds the record of a CPU filter, of a GPU
\* filter and of a filterTableCPU call
Wit_C13 ==
  /\ call.op = "update"
  /\ Has(table, "filterRecord") /\ Has(table, "filterRecordCPU")
  /\ Len(table.filterRecord.gpu) > 0
  /\ Len(table.filterRecordCPU.cpu) > 0
  /\ numRows(table.dataContainer) > Len(table.filteredIdxCPU)

\* the number of rows of a payload and the cell it gives a row and a field
PayloadRows(data) ==
  IF Has(data, "cols") THEN Len(data.cols[1]) ELSE Len(data.rows)

PayloadCell(data, rowIndex, fieldIndex) ==
  IF Has(data, "cols") THEN data.cols[fieldIndex + 1][rowIndex + 1]
  ELSE data.rows[rowIndex + 1][fieldIndex + 1]

\* C14: importData takes a row-major or a column-major payload, column-major
\* exactly when cols is present; afterwards allIndexes is 0..N-1, both index
\* views equal allIndexes, and gpuFilter is the descriptor of no filters.
Thm_C14 ==
  call.op = "importData"
    => /\ (table.dataContainer.format = "COLS_ARRAY") <=> Has(call.data, "cols")
       /\ (table.dataContainer.format = "ROWS_ARRAY") <=> ~Has(call.data, "cols")
       /\ numRows(table.dataContainer) = PayloadRows(call.data)
       /\ \A i \in 0..(PayloadRows(call.data) - 1) :
            \A f \in 0..(Len(call.data.fields) - 1) :
              valueAt(table.dataContainer, i, f) = PayloadCell(call.data, i, f)
       /\ table.allIndexes = [i \in 1..PayloadRows(call.data) |-> i - 1]
       /\ table.filteredIndex = table.allIndexes
       /\ table.filteredIndexForDomain = table.allIndexes
       /\ table.gpuFilter.filterRange = <<>>
       /\ table.gpuFilter.filterValueUpdateTriggers = <<>>

\* a column-major import into a table that was filtered with a GPU filter
\* and on the CPU
Wit_C14 ==
  /\ call.op = "importData"
  /\ Has(call.data, "cols")
  /\ Has(table, "filterRecord")
  /\ Len(table.filterRecord.gpu) > 0
  /\ Has(table, "filteredIdxCPU")

\* C15: after importData, and after any later getColumnFilterProps,
\* filterTable, filterTableCPU, update, sortDatasetByColumn and
\* pinTableColumns calls, fields has one entry per imported column in the
\* imported order, and fields[i].fieldIdx is i.
Thm_C15 ==
  call.op # "new"
    => /\ Len(table.fields) = Len(ImportFields)
       /\ \A i \in 1..Len(table.fields) :
            /\ table.fields[i].name = ImportFields[i].name
            /\ table.fields[i].fieldIdx = i - 1

\* a table that was updated, filtered, filtered on the CPU, sorted and
\* pinned, and holds the filter props of a column
Wit_C15 ==
  /\ numRows(table.dataContainer) > PayloadRows(CHOOSE data \in Payloads : TRUE)
  /\ Has(table, "filterRecord") /\ Has(table, "filteredIdxCPU")
  /\ Has(table, "sortOrder") /\ table.sortOrder.kind = "value"
  /\ Has(table, "pinnedColumns") /\ Len(table.pinnedColumns) > 0
  /\ \E i \in 1..Len(table.fields) : Has(table.fields[i], "filterProps")

\* a property of a field other than its filter props
SameButFilterProps(newField, field) ==
  \A key \in (DOMAIN newField \cup DOMAIN field) \ {"filterProps"} :
    Prop(newField, key) = Prop(field, key)

\* C16: getColumnFilterProps computes the domain of the field only when the
\* field has no own filterProps, and stores the props on the field at the
\* same position; a call for a field that has them returns the stored value,
\* computes nothing and changes nothing; no other field and no other
\* property of the table changes.
Thm_C16 ==
  [][(call'.op = "getColumnFilterProps" /\ ~AbsentColumn(table, call'.column))
       => LET i == findFieldIdx(table.fields, call'.column) + 1
              field == table.fields[i]
          IN  /\ call'.returned.kind = "value"
              /\ IF Has(field, "filterProps")
                 THEN /\ call'.domainScans = 0
                      /\ call'.returned.value = field.filterProps
                      /\ table' = table
                 ELSE /\ call'.domainScans = 1
                      /\ call'.returned.value
                           = getFilterProps(field, getColumnFilterDomain(table, field))
                      /\ Len(table'.fields) = Len(table.fields)
                      /\ table'.fields[i].filterProps = call'.returned.value
                      /\ SameButFilterProps(table'.fields[i], field)
                      /\ \A j \in 1..Len(table.fields) :
                           j # i => table'.fields[j] = table.fields[j]
                      /\ \A key \in (DOMAIN table' \cup DOMAIN table) \ {"fields"} :
                           Prop(table', key) = Prop(table, key)]_vars

\* the second of two calls in a row for the same column, on a table whose
\* other column has filter props too: the stored value is returned
Wit_C16 ==
  /\ call.op = "getColumnFilterProps" /\ call.repeat
  /\ call.domainScans = 0
  /\ call.returned.kind = "value"
  /\ \A i \in 1..Len(table.fields) : Has(table.fields[i], "filterProps")

\* the positions of name at which suffix stands as a token: bounded on each
\* side by an end of the name or by a separator character
TokenAt(name, suffix) ==
  {p \in 1..(Len(name) - Len(suffix) + 1) :
     /\ SubSeq(name, p, p + Len(suffix) - 1) = suffix
     /\ (p = 1 \/ name[p - 1] \in specialCharacterSet)
     /\ (p + Len(suffix) = Len(name) + 1
           \/ name[p + Len(suffix)] \in specialCharacterSet)}

\* name with its first token suffix replaced by the string by
TokenReplaced(name, suffix, by) ==
  LET p == Min(TokenAt(name, suffix))
  IN  SubSeq(name, 1, p - 1) \o by \o SubSeq(name, p + Len(suffix), Len(name))

\* the lower-cased name of the field at a 0-based index of the call's list
LowerName(fieldIdx) == toLowerCase(call.data.fields[fieldIdx + 1].name)

NamesGiven == [i \in 1..Len(call.data.fields) |-> call.data.fields[i].name]

\* C17: findPointFieldPairs pairs a field only when its lower-cased name
\* holds the first suffix of a configured suffix pair as a token bounded on
\* each side by an end of the name or a separator character; 'one_late' with
\* 'one_lng' gives no pair.
Thm_C17 ==
  call.op = "findPointFieldPairs"
    => /\ \A k \in 1..Len(call.returned.value) :
            LET found == call.returned.value[k]
            IN  /\ \E n \in 1..Len(TRIP_POINT_FIELDS) :
                     found.suffix = TRIP_POINT_FIELDS[n]
                /\ TokenAt(LowerName(found.pair.lat.fieldIdx), found.suffix[1]) # {}
       /\ NamesGiven = <<OneLate, OneLng>> => call.returned.value = <<>>

\* 'one_late' and 'one_lat' with 'one_lng': only 'one_lat' is paired
Wit_C17 ==
  /\ call.op = "findPointFieldPairs"
  /\ NamesGiven = <<OneLate, OneLng, OneLat>>
  /\ Len(call.returned.value) = 1
  /\ call.returned.value[1].pair.lat.value = OneLat

\* C18: in every pair returned, pair.lat.fieldIdx is the position of the
\* field whose name matched the first suffix, pair.lng.fieldIdx the position
\* of a field whose lower-cased name is that name with the suffix replaced by
\* its partner, before or after the lat field; both values are the original
\* names; the pairs come in the order of their lat fields.
Thm_C18 ==
  call.op = "findPointFieldPairs"
    => /\ \A k \in 1..Len(call.returned.value) :
            LET found == call.returned.value[k]
                lat == found.pair.lat
                lng == found.pair.lng
            IN  /\ lat.fieldIdx \in 0..(Len(NamesGiven) - 1)
                /\ lng.fieldIdx \in 0..(Len(NamesGiven) - 1)
                /\ lat.value = NamesGiven[lat.fieldIdx + 1]
                /\ lng.value = NamesGiven[lng.fieldIdx + 1]
                /\ TokenAt(LowerName(lat.fieldIdx), found.suffix[1]) # {}
                /\ LowerName(lng.fieldIdx)
                     = TokenReplaced(LowerName(lat.fieldIdx), found.suffix[1],
                                     found.suffix[2])
       /\ \A k \in 1..(Len(call.returned.value) - 1) :
            call.returned.value[k].pair.lat.fieldIdx
              < call.returned.value[k + 1].pair.lat.fieldIdx

\* two pairs, the partner of the second before its lat field
Wit_C18 ==
  /\ call.op = "findPointFieldPairs"
  /\ NamesGiven = <<LngLng, LatLat, LngLat>>
  /\ Len(call.returned.value) = 2
  /\ call.returned.value[2].pair.lng.fieldIdx
       < call.returned.value[2].pair.lat.fieldIdx

\* the pairs of the result in which the field at a 0-based index has a role
PairsOfField(pairs, fieldIdx) ==
  {k \in 1..Len(pairs) :
     pairs[k].pair.lat.fieldIdx = fieldIdx \/ pairs[k].pair.lng.fieldIdx = fieldIdx}

\* C19: over fields with distinct names, each field index occurs in at most
\* one pair of the result, counting the lat and the lng role.
Cex_C19 ==
  call.op = "findPointFieldPairs"
    => \A fieldIdx \in 0..(Len(NamesGiven) - 1) :
         Cardinality(PairsOfField(call.returned.value, fieldIdx)) <= 1

\* the altitude suffixes for which a field stands next to the lat field of a
\* pair
AltitudesOf(found) ==
  {n \in 1..Len(ALTITUDE_FIELDS) :
     \E j \in 0..(Len(NamesGiven) - 1) :
       LowerName(j) = TokenReplaced(LowerName(found.pair.lat.fieldIdx),
                                    found.suffix[1], ALTITUDE_FIELDS[n])}

\* C20: a pair carries an altitude entry exactly when the lower-cased name of
\* some field is the lat field's name with the suffix replaced by a
\* configured altitude suffix; the entry is the field of the first altitude
\* suffix, in configured order, that has one; foundMatchingFields reports no
\* altitude when it found no partner.
Thm_C20 ==
  call.op = "findPointFieldPairs"
    => /\ \A i \in 1..Len(NamesGiven), n \in 1..Len(TRIP_POINT_FIELDS) :
            LET m == foundMatchingFields(TRIP_POINT_FIELDS[n],
                                         namesOf(call.data.fields), LowerName(i - 1))
            IN  m.partnerIdx = -1 => m.altIdx = -1
       /\ \A k \in 1..Len(call.returned.value) :
         LET found == call.returned.value[k]
         IN  /\ Has(found.pair, "altitude") <=> AltitudesOf(found) # {}
             /\ Has(found.pair, "altitude")
                  => /\ found.pair.altitude.fieldIdx \in 0..(Len(NamesGiven) - 1)
                     /\ LowerName(found.pair.altitude.fieldIdx)
                          = TokenReplaced(LowerName(found.pair.lat.fieldIdx),
                                          found.suffix[1],
                                          ALTITUDE_FIELDS[Min(AltitudesOf(found))])
                     /\ found.pair.altitude.value
                          = NamesGiven[found.pair.altitude.fieldIdx + 1]

\* both altitude columns stand next to the point, 'one_altitude' first in
\* the list: the entry is 'one_alt'
Wit_C20 ==
  /\ call.op = "findPointFieldPairs"
  /\ NamesGiven = <<OneAltitude, OneAlt, OneLat, OneLng>>
  /\ Len(call.returned.value) = 1
  /\ call.returned.value[1].pair.altitude.value = OneAlt

\* name without its first token suffix and without the separator characters
\* that bound the token
TokenStripped(name, suffix) ==
  LET p == Min(TokenAt(name, suffix))
      kept == {i \in 1..Len(name) : i < p - 1 \/ i > p + Len(suffix)}
  IN  [j \in 1..Cardinality(kept) |->
         name[CHOOSE i \in kept : Cardinality({h \in kept : h <= i}) = j]]

\* the label made of what remains of a name: the blanks at its ends are
\* dropped, and 'point' stands for nothing
LabelOf(rest) ==
  LET inked == {i \in 1..Len(rest) : rest[i] # " "}
  IN  IF inked = {} THEN <<"p", "o", "i", "n", "t">>
      ELSE SubSeq(rest, Min(inked), Max(inked))

\* C21 as amended: the defaultName of a pair is the lower-cased name of the
\* lat field with the matched suffix token and its bounding separators
\* stripped and the result trimmed, 'point' when nothing remains; 'lat','lon'
\* give 'point' and 'one_lat','one_lng' give 'one'.
Thm_C21 ==
  call.op = "findPointFieldPairs"
    => /\ \A k \in 1..Len(call.returned.value) :
            LET found == call.returned.value[k]
            IN  found.defaultName
                  = LabelOf(TokenStripped(LowerName(found.pair.lat.fieldIdx),
                                          found.suffix[1]))
       /\ NamesGiven = <<Lat, Lon>>
            => /\ Len(call.returned.value) = 1
               /\ call.returned.value[1].defaultName = <<"p", "o", "i", "n", "t">>
       /\ NamesGiven = <<OneLat, OneLng>>
            => /\ Len(call.returned.value) = 1
               /\ call.returned.value[1].defaultName = One

\* 'x _lat' with 'x _lng': the label is 'x', the blank left by the token
\* trimmed away
Wit_C21 ==
  /\ call.op = "findPointFieldPairs"
  /\ NamesGiven = <<BlankLat, BlankLng>>
  /\ Len(call.returned.value) = 1
  /\ call.returned.value[1].defaultName = <<"x">>

\* C21 as stated: the defaultName is the name of the lat field, as the field
\* spells it, with the matched suffix token stripped and the result trimmed,
\* 'point' when nothing remains.
Cex_C21 ==
  call.op = "findPointFieldPairs"
    => \A k \in 1..Len(call.returned.value) :
         LET found == call.returned.value[k]
             name == found.pair.lat.value
             p == Min(TokenAt(LowerName(found.pair.lat.fieldIdx), found.suffix[1]))
             kept == {i \in 1..Len(name) : i < p - 1 \/ i > p + Len(found.suffix[1])}
         IN  found.defaultName
               = LabelOf([j \in 1..Cardinality(kept) |->
                            name[CHOOSE i \in kept :
                                   Cardinality({h \in kept : h <= i}) = j]])

\* the properties of a table other than the given ones are as before
OthersUnchanged(tbl, before, keys) ==
  /\ DOMAIN tbl \ keys = DOMAIN before \ keys
  /\ \A key \in DOMAIN tbl \ keys : tbl[key] = before[key]

IsField(tbl, column) == \E k \in 1..Len(tbl.fields) : tbl.fields[k].name = column

\* C22: sortDatasetByColumn with mode UNSORT on an existing column sets
\* sortOrder to null and sortColumn to {} and changes no other property of
\* the dataset.
Thm_C22 ==
  [][(/\ call'.op = "sortDatasetByColumn"
      /\ call'.mode = "UNSORT"
      /\ IsField(table, call'.column))
       => /\ Has(table', "sortOrder") /\ table'.sortOrder = Null
          /\ Has(table', "sortColumn") /\ table'.sortColumn = EmptyObject
          /\ OthersUnchanged(table', table, {"sortOrder", "sortColumn"})
          /\ call'.returned = Value("dataset")]_vars

\* a table with a filtered render index is unsorted by its second column
Wit_C22 ==
  /\ call.op = "sortDatasetByColumn"
  /\ call.mode = "UNSORT"
  /\ call.column = Lng
  /\ ~call.repeat
  /\ table.sortOrder = Null
  /\ Len(table.filteredIndex) < Len(table.allIndexes)

\* the cell of a row in the column of the last call
CellOfCall(row) ==
  valueAt(table.dataContainer, row, findFieldIdx(table.fields, call.column))

\* C23: in the sortOrder sortDatasetByColumn produces, every row whose cell
\* in the column is null comes after every row with a non-null cell, in
\* ASCENDING and in DESCENDING mode alike.
Thm_C23 ==
  (/\ call.op = "sortDatasetByColumn"
   /\ call.mode \in {"ASCENDING", "DESCENDING", ""}
   /\ IsField(table, call.column))
    => /\ table.sortOrder.kind = "value"
       /\ \A i, j \in 1..Len(table.sortOrder.value) :
            (/\ CellOfCall(table.sortOrder.value[i]) = 0
             /\ CellOfCall(table.sortOrder.value[j]) # 0) => j < i

\* a descending sort of a column whose null cell is not in the last row
Wit_C23 ==
  /\ call.op = "sortDatasetByColumn"
  /\ call.mode = "DESCENDING"
  /\ call.column = Lat
  /\ \E i, j \in Range(table.allIndexes) :
       i < j /\ CellOfCall(i) = 0 /\ CellOfCall(j) # 0
  /\ CellOfCall(table.sortOrder.value[Len(table.sortOrder.value)]) = 0

\* C24: sortDatasetByColumn in ASCENDING or DESCENDING mode sets sortOrder to
\* a permutation of allIndexes and leaves allIndexes, filteredIndex and
\* filteredIndexForDomain unchanged; a column that is not a field leaves the
\* whole dataset unchanged.
Thm_C24 ==
  [][call'.op = "sortDatasetByColumn"
       => /\ (call'.mode \in {"ASCENDING", "DESCENDING"} /\ IsField(table, call'.column))
             => /\ table'.sortOrder.kind = "value"
                /\ Len(table'.sortOrder.value) = Len(table.allIndexes)
                /\ \A row \in Range(table.allIndexes) :
                     Cardinality({k \in 1..Len(table'.sortOrder.value) :
                                    table'.sortOrder.value[k] = row}) = 1
                /\ table'.allIndexes = table.allIndexes
                /\ table'.filteredIndex = table.filteredIndex
                /\ table'.filteredIndexForDomain = table.filteredIndexForDomain
          /\ ~IsField(table, call'.column) => table' = table]_vars

\* an ascending sort of a table with a filtered render index and a null cell
Wit_C24 ==
  /\ call.op = "sortDatasetByColumn"
  /\ call.mode = "ASCENDING"
  /\ call.column = Lat
  /\ Len(table.filteredIndex) < Len(table.allIndexes)
  /\ table.sortOrder.kind = "value"
  /\ table.sortOrder.value # table.allIndexes

\* the pinned columns of a table; none when it has no pinnedColumns
PinnedIn(tbl) == Range(GetOr(tbl, "pinnedColumns", <<>>))

\* C25: pinTableColumns on an existing column returns a new table object
\* whose pinnedColumns has the column appended if it was absent and removed
\* if it was present, every other property as in the original, and leaves
\* the original table as it was; applied twice it restores the original
\* membership; an unknown column returns the original dataset unchanged.
Thm_C25 ==
  [][call'.op = "pinTableColumns"
       => /\ call'.original = Value(table)
          /\ IsField(table, call'.column)
               => /\ call'.returned = Value("copy")
                  /\ Has(table', "pinnedColumns")
                  /\ PinnedIn(table')
                       = IF call'.column \in PinnedIn(table)
                         THEN PinnedIn(table) \ {call'.column}
                         ELSE PinnedIn(table) \cup {call'.column}
                  /\ \A k \in 1..Len(table'.pinnedColumns) :
                       Cardinality({j \in 1..Len(table'.pinnedColumns) :
                                      table'.pinnedColumns[j] = table'.pinnedColumns[k]})
                         = 1
                  /\ call'.column \notin PinnedIn(table)
                       => table'.pinnedColumns
                            = Append(GetOr(table, "pinnedColumns", <<>>), call'.column)
                  /\ OthersUnchanged(table', table, {"pinnedColumns"})
                  /\ (call.op = "pinTableColumns" /\ call.column = call'.column)
                       => PinnedIn(table') = PinnedIn(call.original.value)
          /\ ~IsField(table, call'.column)
               => /\ call'.returned = Value("dataset")
                  /\ table' = table]_vars

\* the first of two pinned columns is unpinned and pinned again: the
\* membership is restored, at the end of the list
Wit_C25 ==
  /\ call.op = "pinTableColumns"
  /\ call.repeat
  /\ call.column = Lat
  /\ call.returned = Value("copy")
  /\ table.pinnedColumns = <<Lng, Lat>>
  /\ call.original.value.pinnedColumns = <<Lng>>
  /\ Has(table, "sortOrder")

\* C26: getScaleFunctor given a missing or unsupported scale type logs a
\* warning and returns the quantize scale; given a supported scale type it
\* returns that type's scale without a warning.
Thm_C26 ==
  call.op = "getScaleFunctor"
    => LET scaleType == call.data.scaleType
       IN  IF scaleType.kind = "value" /\ scaleType.value \in DOMAIN SCALE_FUNC
           THEN /\ call.returned = Value(SCALE_FUNC[scaleType.value])
                /\ call.logged = <<>>
           ELSE /\ call.returned = Value("scaleQuantize")
                /\ Len(call.logged) = 1

\* no scale type at all: a warning and the quantize scale
Wit_C26 ==
  /\ call.op = "getScaleFunctor"
  /\ call.data.scaleType = Undefined
  /\ call.returned = Value("scaleQuantize")
  /\ Len(call.logged) = 1

\* C27: getColumnLayerDomain asked for a scale type that is not a known
\* scale type logs the condition and returns the domain of a default scale.
Cex_C27 ==
  (call.op = "getColumnLayerDomain" /\ call.data.scaleType \notin DOMAIN SCALE_TYPES)
    => /\ Len(call.logged) = 1
       /\ call.returned.kind = "value"

\* the cells of a column at the rows of an index
CellsAt(index, column) ==
  [k \in 1..Len(index) |->
     valueAt(table.dataContainer, index[k], findFieldIdx(table.fields, column))]

\* how many times a value stands in a sequence
Count(values, v) == Cardinality({k \in 1..Len(values) : values[k] = v})

\* C28: getColumnLayerDomain computes quantile, log, linear, quantize, sqrt
\* and custom domains over the rows of the table's filteredIndexForDomain
\* only (quantile: their non-null values in ascending order; the others:
\* the least and the greatest of them), and ordinal, customOrdinal and point
\* domains over all rows of the container (the distinct non-null values),
\* whatever the filters.
Thm_C28 ==
  (call.op = "getColumnLayerDomain" /\ call.data.scaleType \in DOMAIN SCALE_TYPES)
    => LET shown == CellsAt(table.filteredIndexForDomain, call.column)
           all == CellsAt([i \in 1..numRows(table.dataContainer) |-> i - 1],
                          call.column)
           domain == call.returned.value
       IN  /\ call.returned.kind = "value"
           /\ call.logged = <<>>
           /\ call.data.scaleType = "quantile"
                => /\ \A v \in (Range(shown) \cup Range(domain)) \ {0} :
                        Count(domain, v) = Count(shown, v)
                   /\ 0 \notin Range(domain)
                   /\ \A i \in 1..(Len(domain) - 1) : domain[i] <= domain[i + 1]
           /\ call.data.scaleType \in {"log", "linear", "quantize", "sqrt", "custom"}
                => IF Range(shown) \ {0} = {} THEN domain = <<0, 1>>
                   ELSE /\ Len(domain) = 2
                        /\ domain[1] \in Range(shown) \ {0}
                        /\ domain[2] \in Range(shown) \ {0}
                        /\ \A v \in Range(shown) \ {0} : domain[1] <= v /\ v <= domain[2]
           /\ call.data.scaleType \in {"ordinal", "customOrdinal", "point"}
                => /\ Range(domain) = Range(all) \ {0}
                   /\ \A v \in Range(domain) : Count(domain, v) = 1

\* a linear domain of a filtered table: narrower than the column's values
Wit_C28 ==
  /\ call.op = "getColumnLayerDomain"
  /\ call.data.scaleType = "linear"
  /\ call.column = Lat
  /\ Len(table.filteredIndexForDomain) < Len(table.allIndexes)
  /\ call.returned = Value(<<1, 1>>)
  /\ 2 \in Range(CellsAt(table.allIndexes, Lat))

\* C29: after update appended rows while filters are active, the next
\* filterTable call with the same filter list leaves filteredIndex equal to
\* exactly the rows, old and new, that pass every filter of the cpu bucket.
Cex_C29 ==
  [][(/\ call.op = "update"
      /\ call'.op = "filterTable"
      /\ Has(table, "filterRecord")
      /\ table.filterRecord.cpu # <<>>
      /\ Applicable(call'.filters) = call'.filters
      /\ getFilterRecord(DataId, call'.filters, call'.opt) = table.filterRecord)
       => IsExactly(table'.filteredIndex,
                    RowsPassing(table', table'.filterRecord.cpu, call'.layers))]_vars

\* C30: when filterTable is called with the filter list of the call before
\* it and a changed layers list under which the predicates of the cpu or the
\* dynamicDomain bucket pass other rows, filteredIndex and
\* filteredIndexForDomain after the call are the rows passing the predicates
\* built from the new layers.
Cex_C30 ==
  [][(/\ call.op = "filterTable"
      /\ call'.op = "filterTable"
      /\ call'.filters = call.filters
      /\ call'.opt = call.opt
      /\ call'.layers # call.layers
      /\ \/ RowsPassing(table', table'.filterRecord.cpu, call'.layers)
              # RowsPassing(table', table'.filterRecord.cpu, call.layers)
         \/ RowsPassing(table', table'.filterRecord.dynamicDomain, call'.layers)
              # RowsPassing(table', table'.filterRecord.dynamicDomain, call.layers))
       => /\ IsExactly(table'.filteredIndex,
                       RowsPassing(table', table'.filterRecord.cpu, call'.layers))
          /\ IsExactly(table'.filteredIndexForDomain,
                       RowsPassing(table', table'.filterRecord.dynamicDomain,
                                   call'.layers))]_vars

\* every filter of a classification is reported as added, bucket by bucket,
\* and nothing else is reported
AllAdded(changedFilters, filterRecord) ==
  \A record \in Buckets :
    /\ DOMAIN changedFilters[record]
         = {filterRecord[record][k].id : k \in 1..Len(filterRecord[record])}
    /\ \A id \in DOMAIN changedFilters[record] : changedFilters[record][id] = "added"

\* C31: after each filterTable call changedFilters is the diff between the
\* classification of the call's filters and the filterRecord left by the
\* filterTable call right before it (no record on the first call, the empty
\* classification after a call without filters): a filter is reported as
\* added on its first call, nothing is reported on an identical repeat, and
\* every filter is reported as added after a call without filters.
Thm_C31 ==
  [][call'.op = "filterTable"
       => LET new == getFilterRecord(DataId, call'.filters, call'.opt)
              first == call.op # "filterTable"
              old == IF first THEN EmptyObject
                     ELSE getFilterRecord(DataId, call.filters, call.opt)
          IN  /\ Has(table', "changedFilters")
              /\ table'.changedFilters = diffFilters(new, old)
              /\ Has(table, "filterRecord") = ~first
              /\ ~first => table.filterRecord = old
              /\ (first \/ call.filters = <<>>) => AllAdded(table'.changedFilters, new)
              /\ (~first /\ call'.filters = call.filters /\ call'.opt = call.opt)
                   => \A record \in Buckets : DOMAIN table'.changedFilters[record] = {}]_vars

\* a list of two filters, both reported as added, which happens on the first
\* call and after a call without filters
Wit_C31 ==
  /\ call.op = "filterTable"
  /\ call.filters = <<F1cpu, F2cpu>>
  /\ call.opt = NoOpt
  /\ Has(table, "changedFilters")
  /\ DOMAIN table.changedFilters.cpu = {"f1", "f2"}
  /\ table.changedFilters.cpu["f1"] = "added"
  /\ call.scans = 1

\* the configured suffix pairs, by position, whose first suffix is a token of
\* the field's lower-cased name and whose partner name some field has
SuffixPairsOf(fieldIdx) ==
  {n \in 1..Len(TRIP_POINT_FIELDS) :
     /\ TokenAt(LowerName(fieldIdx), TRIP_POINT_FIELDS[n][1]) # {}
     /\ \E j \in 0..(Len(NamesGiven) - 1) :
          LowerName(j) = TokenReplaced(LowerName(fieldIdx), TRIP_POINT_FIELDS[n][1],
                                       TRIP_POINT_FIELDS[n][2])}

\* the pairs of the result whose lat field is the field at a 0-based index
PairsWithLat(pairs, fieldIdx) ==
  {k \in 1..Len(pairs) : pairs[k].pair.lat.fieldIdx = fieldIdx}

\* C32: for each field findPointFieldPairs emits at most one pair with that
\* field as lat: none when no configured suffix pair has its token in the
\* name and a partner field, else the one of the first such suffix pair in
\* configured order.
Thm_C32 ==
  call.op = "findPointFieldPairs"
    => \A fieldIdx \in 0..(Len(NamesGiven) - 1) :
         LET mine == PairsWithLat(call.returned.value, fieldIdx)
         IN  IF SuffixPairsOf(fieldIdx) = {} THEN mine = {}
             ELSE /\ Cardinality(mine) = 1
                  /\ \A k \in mine :
                       call.returned.value[k].suffix
                         = TRIP_POINT_FIELDS[Min(SuffixPairsOf(fieldIdx))]

\* 'lat' with 'lon' and 'lng', 'lon' first in the list: two suffix pairs
\* match, the pair is the one of [lat, lng]
Wit_C32 ==
  /\ call.op = "findPointFieldPairs"
  /\ NamesGiven = <<Lat, Lon, Lng>>
  /\ Cardinality(SuffixPairsOf(0)) = 2
  /\ Len(call.returned.value) = 1
  /\ call.returned.value[1].pair.lng.value = Lng

\* C33: getColumnFilterProps returns filter props whose domain is computed
\* over the container as it is at the call, after update changed its rows
\* too, and also for a column whose filter props were requested before.
Cex_C33 ==
  (call.op = "getColumnFilterProps" /\ call.returned.kind = "value")
    => LET field == table.fields[findFieldIdx(table.fields, call.column) + 1]
       IN  call.returned.value.domain = getColumnFilterDomain(table, field).domain

\* C34: whenever the sortOrder of a table is not null it is a permutation of
\* the table's allIndexes, after any sortDatasetByColumn, update and
\* importData calls.
Cex_C34 ==
  (Has(table, "sortOrder") /\ table.sortOrder.kind = "value")
    => /\ Len(table.sortOrder.value) = Len(table.allIndexes)
       /\ Range(table.sortOrder.value) = Range(table.allIndexes)

\* -------------------------------------------------------------------------
\* CPUAggregator.updateState
\* -------------------------------------------------------------------------

\* whether the call ran the aggregation: the data changed, or a trigger of
\* an aggregation step did
AggregationUpdated(opts) ==
  \/ opts.changeFlags.dataChanged
  \/ \E k \in 1..Len(aggregationUpdater.updateSteps) :
       _needUpdateStep(aggregationUpdater.updateSteps[k], opts.oldProps,
                       opts.props, opts.changeFlags)

\* the steps of a dimension from its first step with a changed trigger
\* through its last, none when no trigger changed
StepsFromFirstChanged(dimension, opts) ==
  LET changed == {k \in 1..Len(dimension.updateSteps) :
                    _needUpdateStep(dimension.updateSteps[k], opts.oldProps,
                                    opts.props, opts.changeFlags)}
  IN  IF changed = {} THEN <<>>
      ELSE [i \in 1..(Len(dimension.updateSteps) - Min(changed) + 1) |->
              <<dimension.key, dimension.updateSteps[Min(changed) + i - 1].key>>]

\* the steps a call ran for a dimension, in the order it ran them
RanOf(ran, key) == SelectSeq(ran, LAMBDA step : step[1] = key)

\* the state of a dimension, empty before its first step wrote to it
DimensionStateOf(self, key) == GetOr(self.state.dimensions, key, EmptyObject)

\* C35: an updateState call without dataChanged and without a changed
\* aggregation trigger runs, for each dimension, exactly the steps from the
\* first step whose trigger changed through the last step, in declared
\* order; a dimension with no changed trigger runs no step and keeps its
\* dimension state
Cex_C35 ==
  [][(call'.op = "updateState" /\ ~AggregationUpdated(call'.data))
       => \A k \in 1..Len(dimensionUpdaters) :
            LET dimension == dimensionUpdaters[k]
            IN  /\ RanOf(call'.ran, dimension.key)
                     = StepsFromFirstChanged(dimension, call'.data)
                /\ StepsFromFirstChanged(dimension, call'.data) = <<>>
                     => DimensionStateOf(aggregator', dimension.key)
                          = DimensionStateOf(aggregator, dimension.key)]_vars

\* every step of the aggregation and then of every dimension, in declared
\* order
EveryStep(self) ==
  [k \in 1..Len(updateAggregation(self) \o updateAllDimensions(self)) |->
     Ran((updateAggregation(self) \o updateAllDimensions(self))[k])]

\* the bins, the value domain and the scale function of a dimension are
\* built from the layerData the aggregator holds
BuiltFromLayerData(self, key) ==
  LET dimension == self.state.dimensions[key]
  IN  /\ Has(dimension, "sortedBins")
           => dimension.sortedBins.bins = dataOrEmpty(self.state.layerData)
      /\ (Has(dimension, "valueDomain") /\ dimension.valueDomain.kind = "valueDomain")
           => dimension.valueDomain.sortedBins.bins = dataOrEmpty(self.state.layerData)
      /\ (Has(dimension, "scaleFunc") /\ dimension.scaleFunc.domain.kind = "valueDomain")
           => dimension.scaleFunc.domain.sortedBins.bins
                = dataOrEmpty(self.state.layerData)

\* C36: an updateState call with dataChanged set, or with a changed trigger
\* of an aggregation step, runs the aggregation updater first and then every
\* step of every dimension in declared order, so that no dimension keeps
\* sortedBins, a valueDomain or a scaleFunc computed from the layerData of
\* before
Cex_C36 ==
  (call.op = "updateState" /\ AggregationUpdated(call.data))
    => /\ call.ran = EveryStep(aggregator)
       /\ \A key \in DOMAIN aggregator.state.dimensions :
            BuiltFromLayerData(aggregator, key)

\* the output of the step before getDomain (sortedBins), or before
\* getScaleFunc (valueDomain), is missing in the state of the dimension
PredecessorMissing(self, step) ==
  \/ step[2] = "getDomain" /\ ~Has(DimensionStateOf(self, step[1]), "sortedBins")
  \/ step[2] = "getScaleFunc" /\ ~Has(DimensionStateOf(self, step[1]), "valueDomain")

\* C37: in every state of the aggregator a dimension has a valueDomain only
\* if it has sortedBins and a scaleFunc only if it has a valueDomain; and
\* getDimensionValueDomain and getDimensionScale, called when the output of
\* the step before them is missing, do not throw and leave the state of the
\* dimension as it was
Cex_C37 ==
  [][/\ \A key \in DOMAIN aggregator'.state.dimensions :
          /\ Has(aggregator'.state.dimensions[key], "valueDomain")
               => Has(aggregator'.state.dimensions[key], "sortedBins")
          /\ Has(aggregator'.state.dimensions[key], "scaleFunc")
               => Has(aggregator'.state.dimensions[key], "valueDomain")
     /\ (/\ call'.op = "updateState"
         /\ call'.ran # <<>>
         /\ PredecessorMissing(aggregator, call'.ran[1]))
          => /\ ~(call'.returned.kind = "throw" /\ Len(call'.ran) = 1)
             /\ DimensionStateOf(aggregator', call'.ran[1][1])
                  = DimensionStateOf(aggregator, call'.ran[1][1])]_vars

\* an aggregation the aggregation layers support, in any case of letters
Supported(aggregation) ==
  /\ aggregation.kind = "value"
  /\ toUpperCase(aggregation.value)
       \in {<<"S", "U", "M">>, <<"M", "E", "A", "N">>, <<"M", "I", "N">>, <<"M", "A", "X">>}

\* C38: getValueFunc returns an aggregating function for every aggregation;
\* for a missing aggregation (null, undefined) and for one that is not
\* supported it writes a warning and aggregates by sum, and does not throw
Cex_C38 ==
  call.op = "getValueFunc"
    => /\ call.returned.kind = "function"
       /\ ~Supported(call.data.aggregation)
            => /\ call.logged # <<>>
               /\ call.returned.value.aggregate = "sum"

\* -------------------------------------------------------------------------
\* FileUpload._handleFileInput
\* -------------------------------------------------------------------------

\* the name ends with one of the extensions of the props
EndsWithExtension(props, name) ==
  \E k \in 1..Len(GetOr(props, "fileExtensions", <<>>)) :
    endsWith(name, props.fileExtensions[k])

\* the file is one to load: the filter is disabled, or its name ends with
\* a supported extension
ToLoad(props, file) ==
  \/ Has(props, "disableExtensionFilter") /\ props.disableExtensionFilter
  \/ EndsWithExtension(props, file.value.name)

\* the files of a file list
Received(fileList) == SelectSeq(fileList, LAMBDA file : file # Null)

NamesOfFiles(files) == [k \in 1..Len(files) |-> files[k].value.name]

\* C39: _handleFileInput keeps the received files whose name ends with a
\* supported extension (all of them when disableExtensionFilter is set) as
\* the files to load and the names of the rest as the error files, sets
\* dragOver to false, and calls onFileUpload once, with the files to load,
\* when there is one, and not at all when there is none
Thm_C39 ==
  call.op = "_handleFileInput"
    => LET props == call.data.props
           received == Received(call.data.fileList)
           toLoad == SelectSeq(received, LAMBDA file : ToLoad(props, file))
           rest == SelectSeq(received, LAMBDA file : ~ToLoad(props, file))
       IN  /\ fileUpload.state.files = toLoad
           /\ fileUpload.state.errorFiles = NamesOfFiles(rest)
           /\ fileUpload.state.dragOver = FALSE
           /\ call.called = IF toLoad = <<>> THEN <<>>
                            ELSE <<[onFileUpload |-> toLoad]>>

\* a list of two files handed over while the filter is disabled and a drag
\* is over the component: both are loaded, though the name of one ends
\* with no supported extension
Wit_C39 ==
  /\ call.op = "_handleFileInput"
  /\ Has(call.data.props, "disableExtensionFilter")
  /\ call.data.props.disableExtensionFilter
  /\ Has(call.data.props, "fileExtensions")
  /\ Len(fileUpload.state.files) = 2
  /\ \E k \in 1..2 :
       ~EndsWithExtension(call.data.props, fileUpload.state.files[k].value.name)
  /\ Len(call.called) = 1

\* -------------------------------------------------------------------------
\* CustomInput.onChangeInput
\* -------------------------------------------------------------------------

\* C40: a text committed for one bound of a ranged CustomInput calls
\* onChangeCustomInput with the other bound unchanged, and when the text is
\* not a number while both bounds are numbers the edited bound keeps the
\* value it had
Cex_C40 ==
  (call.op = "onChangeInput" /\ call.data.props.isRanged)
    => LET before == call.data.props.value
           after == call.called[1].onChangeCustomInput
           edited == IF call.data.name = "value0" THEN 1 ELSE 2
       IN  /\ after[3 - edited] = before[3 - edited]
           /\ (/\ isNaN(Number(call.data.v))
               /\ before[1].typeof = "number"
               /\ before[2].typeof = "number")
                => after[edited] = before[edited]

====
